---- MODULE Spec2Model ----
(***************************************************************************)
(* Maximum-clique benchmarking suite: the Graph substrate (adjacency list  *)
(* plus adjacency matrix, degeneracy ordering, clique validation) and the  *)
(* exact branch-and-bound solvers that run on it.                          *)
(*                                                                         *)
(* SpecGraph  : a Graph object driven through its public operations.       *)
(***************************************************************************)
EXTENDS Integers, Sequences, FiniteSets, TLC

\* ------------------------------------------------------------------ bounds
\* Largest vertex count of a Graph object in SpecGraph.
MaxVerts == 3
\* Longest vertex list handed to is_clique.
MaxK == 2
\* Longest edge file handed to load_from_snap.
MaxLines == 2

VARIABLES
    n,           \* Graph::n
    m,           \* Graph::m
    adj_list,    \* Graph::adj_list   : vertex -> set of neighbours
    adj_matrix,  \* Graph::adj_matrix : vertex -> vertex -> BOOLEAN
    op,          \* the operation performed last
    arg,         \* its argument
    ret,         \* its return value ("throw" when it threw)
    algo,        \* the solver class (and source version) under call
    pc,          \* find_maximum_clique: "idle", "search" or "done"
    max_clique,  \* the solver's incumbent (max_clique, BBMC::best_clique)
    stack,       \* the frames of the recursive search, innermost last
    outer,       \* DegeneracyBK::find_maximum_clique: its loop over the ordering
    cur,         \* the clique passed by reference (MaxCliqueDyn R, BBMC C)
    bb,          \* BBMC fields: V, N, invN, max_size, nodes_explored
    cpu,         \* CPUOptimized fields: n, neighbors
    sorted,      \* what std::sort yields on the solver's initial vertex array
    calls,       \* how many find_maximum_clique calls have returned
    prev,        \* algo, return value and node count of the first call
    now          \* benchmark_algorithm: whole seconds on the clock since `start`

gvars == <<n, m, adj_list, adj_matrix>>
qvars == <<op, arg, ret>>
svars == <<algo, pc, max_clique, stack, outer, cur, bb, cpu, sorted, calls, prev, now>>
vars == <<n, m, adj_list, adj_matrix, op, arg, ret,
          algo, pc, max_clique, stack, outer, cur, bb, cpu, sorted, calls, prev, now>>

\* ------------------------------------------------------------- utilities
Range(s) == {s[i] : i \in 1..Len(s)}

Max2(a, b) == IF a >= b THEN a ELSE b

RECURSIVE SumOver(_, _)
SumOver(S, f) ==
    IF S = {} THEN 0
    ELSE LET x == CHOOSE y \in S : TRUE IN f[x] + SumOver(S \ {x}, f)

\* All sequences over S of length at most k.
SeqsUpTo(S, k) == UNION {[1..l -> S] : l \in 0..k}

\* Every vertex id of the graph.
Verts == 0..(n - 1)

\* ----------------------------------------------------------------- Graph
has_edge_Unchecked(u, v) ==
    IF u < 0 \/ u >= n THEN FALSE
    ELSE IF v < 0 \/ v >= n THEN TRUE ELSE adj_matrix[u][v]

\* Graph::has_edge
has_edge(u, v) ==
    IF u < 0 \/ u >= n \/ v < 0 \/ v >= n THEN FALSE ELSE adj_matrix[u][v]

\* Graph::get_neighbors (callers pass an in-range vertex)
get_neighbors(v) == adj_list[v]

\* Graph::get_degree
get_degree(v) == Cardinality(adj_list[v])

\* Graph::num_edges
num_edges == m

\* Graph::num_vertices
num_vertices == n

\* (mutation of add_edge_on: the reverse direction is not entered in the matrix)
add_edge_on_OneWay(g, u, v) ==
    IF ~g.mat[u][v]
    THEN LET l1 == [g.lst EXCEPT ![u] = @ \cup {v}]
             l2 == [l1 EXCEPT ![v] = @ \cup {u}]
             m1 == [g.mat EXCEPT ![u][v] = TRUE]
         IN [lst |-> l2, mat |-> m1, m |-> g.m + 1]
    ELSE g

\* The body of Graph::add_edge past its range check, on the graph fields
\* given as a record, so that load_from_snap can fold it over an edge list.
add_edge_on(g, u, v) ==
    IF ~g.mat[u][v]
    THEN LET l1 == [g.lst EXCEPT ![u] = @ \cup {v}]
             l2 == [l1 EXCEPT ![v] = @ \cup {u}]
             m1 == [g.mat EXCEPT ![u][v] = TRUE]
             m2 == [m1 EXCEPT ![v][u] = TRUE]
         IN [lst |-> l2, mat |-> m2, m |-> g.m + 1]
    ELSE g

ThisGraph == [lst |-> adj_list, mat |-> adj_matrix, m |-> m]

\* Graph::add_edge
AddEdge(u, v) ==
    /\ op' = "add_edge"
    /\ arg' = <<u, v>>
    /\ IF u < 0 \/ u >= n \/ v < 0 \/ v >= n
       THEN /\ ret' = "throw"
            /\ UNCHANGED gvars
       ELSE LET g == add_edge_on(ThisGraph, u, v)
            IN /\ ret' = "ok"
               /\ n' = n
               /\ adj_list' = g.lst
               /\ adj_matrix' = g.mat
               /\ m' = g.m

\* Vertex ids that occur in an edge file.
FileIds == {-1, 2, 5}

\* Graph::Graph(int n)
EmptyGraph(nn) ==
    [lst |-> [v \in 0..(nn - 1) |-> {}],
     mat |-> [u \in 0..(nn - 1) |-> [v \in 0..(nn - 1) |-> FALSE]],
     m   |-> 0]

\* load_from_snap, second pass: add the edges under the remapped ids.
RECURSIVE snap_add_edges(_, _, _)
snap_add_edges(g, edges, vertex_map) ==
    IF edges = <<>> THEN g
    ELSE LET u == Head(edges)[1]
             v == Head(edges)[2]
             g1 == IF u # v
                   THEN add_edge_on(g, vertex_map[u], vertex_map[v])
                   ELSE g
         IN snap_add_edges(g1, Tail(edges), vertex_map)

\* Graph::load_from_snap on the parsed edge lines of a file that opened.
LoadFromSnap(edges) ==
    LET unique_vertices == UNION {{e[1], e[2]} : e \in Range(edges)}
        vertex_map == [v \in unique_vertices |->
                          Cardinality({w \in unique_vertices : w < v})]
        nn == Cardinality(unique_vertices)
        g == snap_add_edges(EmptyGraph(nn), edges, vertex_map)
    IN /\ op' = "load_from_snap"
       /\ arg' = edges
       /\ IF unique_vertices = {}
          THEN /\ ret' = "throw"
               /\ UNCHANGED gvars
          ELSE /\ ret' = "ok"
               /\ n' = nn
               /\ adj_list' = g.lst
               /\ adj_matrix' = g.mat
               /\ m' = g.m

\* load_from_snap of the version that keeps the file's ids, second pass:
\* add_edge(u, v) for every line that is no self-loop; the first add_edge
\* with an id outside [0,nn) throws and ends the load.
RECURSIVE direct_add_edges(_, _, _)
direct_add_edges(g, edges, nn) ==
    IF edges = <<>> THEN [thrown |-> FALSE, g |-> g]
    ELSE LET u == Head(edges)[1]
             v == Head(edges)[2]
         IN IF u = v THEN direct_add_edges(g, Tail(edges), nn)
            ELSE IF u < 0 \/ u >= nn \/ v < 0 \/ v >= nn
            THEN [thrown |-> TRUE, g |-> g]
            ELSE direct_add_edges(add_edge_on(g, u, v), Tail(edges), nn)

\* Graph::load_from_snap, the version without id remapping, on the parsed
\* edge lines of a file that opened: n is the largest id plus one.
LoadFromSnapDirect(edges) ==
    LET ids == UNION {{e[1], e[2]} : e \in Range(edges)}
        max_vertex == IF ids = {} THEN -1
                      ELSE Max2(-1, CHOOSE x \in ids : \A y \in ids : y <= x)
        nn == max_vertex + 1
        r == direct_add_edges(EmptyGraph(nn), edges, nn)
    IN /\ op' = "load_from_snap_direct"
       /\ arg' = edges
       /\ IF max_vertex < 0 \/ r.thrown
          THEN /\ ret' = "throw"
               /\ UNCHANGED gvars
          ELSE /\ ret' = "ok"
               /\ n' = nn
               /\ adj_list' = r.g.lst
               /\ adj_matrix' = r.g.mat
               /\ m' = r.g.m

\* The inner scan "if (!removed[v] && degrees[v] < min_degree)": the first
\* vertex, in ascending id, of least residual degree.
MinVertex(degrees, removed) ==
    LET live == {v \in Verts : ~removed[v] /\ degrees[v] < n + 1}
        best == {v \in live : \A w \in live : degrees[v] <= degrees[w]}
    IN IF best = {} THEN -1
       ELSE CHOOSE v \in best : \A w \in best : v <= w

\* (mutation of degeneracy_loop: the chosen vertex is never marked removed)
RECURSIVE degeneracy_loop_NoMark(_, _, _, _, _)
degeneracy_loop_NoMark(iter, degrees, removed, ordering, degeneracy) ==
    IF iter >= n THEN [ordering |-> ordering, degeneracy |-> degeneracy]
    ELSE LET min_vertex == MinVertex(degrees, removed)
             min_degree == IF min_vertex = -1 THEN n + 1 ELSE degrees[min_vertex]
             degrees1 == [v \in Verts |->
                             IF v \in adj_list[min_vertex] /\ ~removed[v]
                             THEN degrees[v] - 1 ELSE degrees[v]]
         IN degeneracy_loop_NoMark(iter + 1, degrees1, removed,
                                   Append(ordering, min_vertex),
                                   Max2(degeneracy, min_degree))

\* The removal loop that compute_degeneracy_ordering and get_degeneracy both
\* run: yields the ordering and the largest residual degree met.
RECURSIVE degeneracy_loop(_, _, _, _, _)
degeneracy_loop(iter, degrees, removed, ordering, degeneracy) ==
    IF iter >= n THEN [ordering |-> ordering, degeneracy |-> degeneracy]
    ELSE LET min_vertex == MinVertex(degrees, removed)
             min_degree == IF min_vertex = -1 THEN n + 1 ELSE degrees[min_vertex]
             removed1 == [removed EXCEPT ![min_vertex] = TRUE]
             degrees1 == [v \in Verts |->
                             IF v \in adj_list[min_vertex] /\ ~removed1[v]
                             THEN degrees[v] - 1 ELSE degrees[v]]
         IN degeneracy_loop(iter + 1, degrees1, removed1,
                            Append(ordering, min_vertex),
                            Max2(degeneracy, min_degree))

\* Graph::compute_degeneracy_ordering
compute_degeneracy_ordering ==
    degeneracy_loop(0, [v \in Verts |-> Cardinality(adj_list[v])],
                    [v \in Verts |-> FALSE], <<>>, 0).ordering

\* Graph::get_degeneracy
get_degeneracy ==
    degeneracy_loop(0, [v \in Verts |-> Cardinality(adj_list[v])],
                    [v \in Verts |-> FALSE], <<>>, 0).degeneracy

\* (mutation of is_clique: the inner loop starts one position too late)
is_clique_SkipNext(clique) ==
    LET k == Len(clique)
    IN \A i \in 1..k : \A j \in (i + 2)..k : has_edge(clique[i], clique[j])

\* Graph::is_clique
is_clique(clique) ==
    LET k == Len(clique)
    IN \A i \in 1..k : \A j \in (i + 1)..k : has_edge(clique[i], clique[j])

ComputeDegeneracyOrdering ==
    /\ op' = "compute_degeneracy_ordering"
    /\ arg' = <<>>
    /\ ret' = compute_degeneracy_ordering
    /\ UNCHANGED gvars

GetDegeneracy ==
    /\ op' = "get_degeneracy"
    /\ arg' = <<>>
    /\ ret' = get_degeneracy
    /\ UNCHANGED gvars

IsClique(clique) ==
    /\ op' = "is_clique"
    /\ arg' = clique
    /\ ret' = is_clique(clique)
    /\ UNCHANGED gvars

\* A call of Graph::has_edge
HasEdge(u, v) ==
    /\ op' = "has_edge"
    /\ arg' = <<u, v>>
    /\ ret' = has_edge(u, v)
    /\ UNCHANGED gvars

\* A call of Graph::get_degree: the range check, then adj_list[v].size().
GetDegree(v) ==
    /\ op' = "get_degree"
    /\ arg' = <<v>>
    /\ ret' = IF v < 0 \/ v >= n THEN <<"out_of_range">> ELSE <<"ok", get_degree(v)>>
    /\ UNCHANGED gvars

\* A call of Graph::get_neighbors: the range check, then adj_list[v].
GetNeighbors(v) ==
    /\ op' = "get_neighbors"
    /\ arg' = <<v>>
    /\ ret' = IF v < 0 \/ v >= n THEN <<"out_of_range">> ELSE <<"ok", get_neighbors(v)>>
    /\ UNCHANGED gvars

\* A Graph(n) fresh from its constructor.
InitGraph ==
    /\ \E nn \in 0..MaxVerts :
          /\ n = nn
          /\ m = EmptyGraph(nn).m
          /\ adj_list = EmptyGraph(nn).lst
          /\ adj_matrix = EmptyGraph(nn).mat
    /\ op = "Graph"
    /\ arg = <<>>
    /\ ret = "ok"
    /\ algo = "none" /\ pc = "idle" /\ max_clique = <<>> /\ stack = <<>>
    /\ outer = <<>> /\ cur = <<>> /\ bb = <<>> /\ cpu = <<>> /\ sorted = <<>>
    /\ calls = 0 /\ prev = <<>>
    /\ now = 0

\* The last operation built or changed the graph.  The const queries leave the
\* Graph untouched, so a behaviour is not continued past a query; the static
\* load_from_snap makes its own Graph, so it is taken in place of Graph(n).
\* The Graph of the loader that keeps the file's ids is as large as the
\* largest id; a behaviour ends with it.
Building == op \in {"Graph", "add_edge", "load_from_snap"}

NextGraph ==
    \/ Building /\ UNCHANGED svars /\ \E u \in -1..n, v \in -1..n : AddEdge(u, v)
    \/ op = "Graph" /\ UNCHANGED svars
          /\ \E edges \in SeqsUpTo(FileIds \X FileIds, MaxLines) : LoadFromSnap(edges)
    \/ op = "Graph" /\ UNCHANGED svars
          /\ \E edges \in SeqsUpTo(FileIds \X FileIds, MaxLines) : LoadFromSnapDirect(edges)
    \/ Building /\ UNCHANGED svars /\ ComputeDegeneracyOrdering
    \/ Building /\ UNCHANGED svars /\ GetDegeneracy
    \/ Building /\ UNCHANGED svars /\ \E clique \in SeqsUpTo(0..n, MaxK) : IsClique(clique)
    \/ Building /\ UNCHANGED svars /\ \E u \in -1..n, v \in -1..n : HasEdge(u, v)
    \/ Building /\ UNCHANGED svars /\ \E v \in -1..n : GetDegree(v)
    \/ Building /\ UNCHANGED svars /\ \E v \in -1..n : GetNeighbors(v)

SpecGraph == InitGraph /\ [][NextGraph]_vars

\* --------------------------------------------------- Graph substrate claims

\* C6: after any add_edge calls that did not throw, has_edge is symmetric and
\* has_edge(u,v) holds exactly when v is in get_neighbors(u): the adjacency
\* matrix and the adjacency sets agree.
C6_AdjacencyAgrees ==
    \A u \in Verts : \A v \in Verts :
        /\ has_edge(u, v) = has_edge(v, u)
        /\ has_edge(u, v) <=> (v \in get_neighbors(u))

C6_Witness ==
    /\ op = "add_edge" /\ ret = "ok"
    /\ arg[1] < arg[2]
    /\ has_edge(arg[2], arg[1])
    /\ m >= 2

\* C7: has_edge(v,v) is false for every vertex of every Graph built by
\* Graph(n) and add_edge calls or by load_from_snap.
C7_NoSelfLoops == \A v \in Verts : ~has_edge(v, v)

\* C8: num_edges() is half the sum of the degrees, and add_edge for an edge
\* that is already present changes neither num_edges() nor any adjacency.
C8_EdgeCount ==
    /\ [](2 * num_edges = SumOver(Verts, [v \in Verts |-> get_degree(v)]))
    /\ [][(op' = "add_edge" /\ ret' = "ok" /\ has_edge(arg'[1], arg'[2]))
            => UNCHANGED gvars]_vars

\* C9: compute_degeneracy_ordering() returns every vertex of [0,n) exactly
\* once, and every vertex has at most get_degeneracy() neighbours later in
\* the returned ordering.
C9_DegeneracyOrdering ==
    op = "compute_degeneracy_ordering" =>
        /\ Len(ret) = n
        /\ \A v \in Verts : Cardinality({i \in 1..Len(ret) : ret[i] = v}) = 1
        /\ \A i \in 1..Len(ret) :
              Cardinality({j \in (i + 1)..Len(ret) :
                              ret[j] \in get_neighbors(ret[i])}) <= get_degeneracy

C9_Witness ==
    /\ op = "compute_degeneracy_ordering"
    /\ n = 3 /\ m = 2
    /\ get_degeneracy = 1
    /\ \E i \in 1..Len(ret) : \E j \in (i + 1)..Len(ret) :
          ret[j] \in get_neighbors(ret[i])

NoRepeat(s) == \A i \in 1..Len(s) : \A j \in 1..Len(s) : i # j => s[i] # s[j]

\* C10 as stated: is_clique(K) is true iff every two distinct vertices that
\* occur in K are adjacent.
C10_IsCliqueIff ==
    op = "is_clique" =>
        (ret <=> \A u \in Range(arg) : \A v \in Range(arg) :
                    u # v => has_edge(u, v))

\* C10 (amended): for a list K without repeated vertices is_clique(K) is true
\* iff every two distinct vertices of K are adjacent (so it is true for the
\* empty list and every one-vertex list); a list that names a vertex v twice
\* is accepted only if has_edge(v,v).
C10_IsCliqueDistinct ==
    op = "is_clique" =>
        /\ NoRepeat(arg) =>
              (ret <=> \A u \in Range(arg) : \A v \in Range(arg) :
                          u # v => has_edge(u, v))
        /\ \A i \in 1..Len(arg) : \A j \in 1..Len(arg) :
              (i # j /\ arg[i] = arg[j] /\ ret) => has_edge(arg[i], arg[i])

C10_Witness ==
    /\ op = "is_clique"
    /\ Len(arg) = 2 /\ arg[1] # arg[2]
    /\ ret = TRUE

OutOfRange(v) == v < 0 \/ v >= n

\* C11: with a vertex id outside [0,n), has_edge returns false and does not
\* throw; get_degree, get_neighbors and add_edge fail with the out-of-range
\* error; the failing add_edge leaves n, m and the adjacency as they were.
C11_OutOfRange ==
    /\ [](/\ (op = "has_edge" /\ (OutOfRange(arg[1]) \/ OutOfRange(arg[2])))
                => ret = FALSE
          /\ (op \in {"get_degree", "get_neighbors"} /\ OutOfRange(arg[1]))
                => ret = <<"out_of_range">>
          /\ (op \in {"get_degree", "get_neighbors"} /\ ~OutOfRange(arg[1]))
                => ret[1] = "ok"
          /\ (op = "add_edge" /\ (OutOfRange(arg[1]) \/ OutOfRange(arg[2])))
                => ret = "throw")
    /\ [][(op' = "add_edge" /\ (arg'[1] < 0 \/ arg'[1] >= n
                                  \/ arg'[2] < 0 \/ arg'[2] >= n))
            => (ret' = "throw" /\ UNCHANGED gvars)]_vars

\* C12 as stated: building a graph from an edge list that holds a negative
\* vertex id fails and yields no graph.
C12_NegativeIdRejected ==
    (/\ op \in {"load_from_snap", "load_from_snap_direct"}
     /\ \E i \in 1..Len(arg) : arg[i][1] < 0 \/ arg[i][2] < 0)
        => ret = "throw"

C11_Witness ==
    /\ op = "add_edge" /\ ret = "throw"
    /\ arg[1] \in Verts /\ arg[2] = n
    /\ m > 0

(***************************************************************************)
(* SpecSolve : find_maximum_clique of one exact solver on one simple graph,*)
(* called a first and a second time.  An unordered_set is a set: a loop    *)
(* over it may visit its elements in any order, and std::sort may leave    *)
(* elements of equal key in any order.                                     *)
(***************************************************************************)

\* Largest vertex count of a graph handed to a solver.
MaxN == 3

\* Largest vertex count for which the first call's unspecified choices are
\* kept, so that a second call on the same object can be compared with it.
MaxReplayN == 2

\* CPUOptimized::MAX_VERTICES, as the header tomita.hpp declares it
MAX_VERTICES == 1024

\* CPUOptimized::MAX_VERTICES, as the merged cpu_optimized source declares it
MAX_VERTICES_merged == 8192

\* The values of MAX_VERTICES a CPUOptimized object can be compiled with.
CPUOptimizedBuilds == {MAX_VERTICES, MAX_VERTICES_merged}

SetSolvers == {"BronKerbosch", "BronKerboschSeeded",
               "TomitaAlgorithm", "TomitaAlgorithmSeeded",
               "DegeneracyBK", "DegeneracyBKSeeded"}

\* The solvers that keep (R, P, X) per recursion node.
RPXSolvers == SetSolvers \cup {"CPUOptimized"}

\* The versions that start from find_greedy_clique and use the colouring bound.
Seeded(a) == a \in {"BronKerboschSeeded", "TomitaAlgorithmSeeded", "DegeneracyBKSeeded",
                    "MaxCliqueDyn"}

Degeneracy(a) == a \in {"DegeneracyBK", "DegeneracyBKSeeded"}

Pivoting(a) == a \in RPXSolvers \ {"BronKerbosch", "BronKerboschSeeded"}

ColouringBound(a) == a \in {"TomitaAlgorithmSeeded", "DegeneracyBKSeeded"}

\* Every sequence that lists the set S with keys in non-increasing order:
\* the possible results of std::sort with a "key(a) > key(b)" comparator.
RECURSIVE SortedOrders(_, _)
SortedOrders(S, key) ==
    IF S = {} THEN {<<>>}
    ELSE LET top == {v \in S : \A w \in S : key[v] >= key[w]}
         IN UNION {{<<v>> \o o : o \in SortedOrders(S \ {v}, key)} : v \in top}

\* Every order in which a loop may visit an unordered_set.
IterationOrders(S) == SortedOrders(S, [v \in S |-> 0])

\* intersect_with_neighbors(s, v, g): s \cap N(v)
intersect_with_neighbors(s, v) == {u \in s : u \in get_neighbors(v)}

\* The lambda of the sorts by "degree in P": neighbours of u inside P.
DegIn(P, u) == Cardinality({w \in P : w \in get_neighbors(u)})

greedy_extend_Once(clique, candidates) ==
    IF candidates = {} THEN {clique}
    ELSE LET best == {v \in candidates :
                        \A w \in candidates : DegIn(candidates, v) >= DegIn(candidates, w)}
         IN {Append(clique, next_v) : next_v \in best}

\* find_greedy_clique, the loop that extends the clique: the candidate that
\* is met first among those of largest degree inside the candidates is added.
RECURSIVE greedy_extend(_, _)
greedy_extend(clique, candidates) ==
    IF candidates = {} THEN {clique}
    ELSE LET best == {v \in candidates :
                        \A w \in candidates : DegIn(candidates, v) >= DegIn(candidates, w)}
         IN UNION {greedy_extend(Append(clique, next_v),
                                 {v \in candidates : v # next_v /\ v \in get_neighbors(next_v)})
                   : next_v \in best}

\* find_greedy_clique (BronKerbosch, TomitaAlgorithm, DegeneracyBK,
\* MaxCliqueDyn): the set of lists it can return.
find_greedy_clique ==
    IF n = 0 THEN {<<>>}
    ELSE LET best_v == CHOOSE v \in Verts :
                          /\ \A w \in Verts : get_degree(v) >= get_degree(w)
                          /\ \A w \in Verts : get_degree(w) = get_degree(v) => v <= w
         IN greedy_extend(<<best_v>>, get_neighbors(best_v))

\* Greedy sequential colouring of the vertices of P taken in the order given:
\* each vertex gets the smallest colour none of its coloured neighbours in P has.
\* (o, Q, c are the arguments, bound once per level of the recursion.)
RECURSIVE sequential_colouring(_, _, _)
sequential_colouring(order, P, colors) ==
    IF order = <<>> THEN colors
    ELSE CHOOSE result \in
            {LET v == Head(o)
                 used == {c[u] : u \in {w \in Q : w # v /\ w \in get_neighbors(v)
                                                  /\ c[w] >= 0}}
                 color == CHOOSE k \in 0..Cardinality(Q) :
                             k \notin used /\ \A d \in 0..(k - 1) : d \in used
             IN sequential_colouring(Tail(o), Q, [c EXCEPT ![v] = color])
             : <<o, Q, c>> \in {<<order, P, colors>>}} : TRUE

Uncoloured == [v \in Verts |-> -1]

MaxColour(colors) ==
    CHOOSE c \in {colors[v] : v \in Verts} : \A v \in Verts : colors[v] <= c

compute_coloring_bound_Under(P) == IF P = {} THEN {0} ELSE {1}

\* compute_coloring_bound (TomitaAlgorithm, DegeneracyBK): the values it can
\* return for P, one per order the degree sort can leave.
compute_coloring_bound(P) ==
    IF P = {} THEN {0}
    ELSE {MaxColour(sequential_colouring(o, P, Uncoloured)) + 1 :
            o \in SortedOrders(P, [v \in P |-> DegIn(P, v)])}

\* choose_pivot over unordered sets (TomitaAlgorithm, DegeneracyBK): first
\* the vertices of P, then those of X, each replacing the best so far only
\* when strictly better; -1 when both are empty.
choose_pivot_set(P, X) ==
    LET bestP == {v \in P : \A w \in P : DegIn(P, v) >= DegIn(P, w)}
        bestX == {v \in X : \A w \in X : DegIn(P, v) >= DegIn(P, w)}
    IN IF P = {} /\ X = {} THEN {-1}
       ELSE IF P = {} THEN bestX
       ELSE IF \E x \in X : \A v \in P : DegIn(P, x) > DegIn(P, v) THEN bestX
       ELSE bestP

BitCount(P, v) == Cardinality(P \cap cpu.neighbors[v])

choose_pivot_bits_OnlyP(P, X) ==
    IF P = {} THEN -1
    ELSE CHOOSE v \in P : \A w \in P : BitCount(P, v) >= BitCount(P, w)

\* CPUOptimized::choose_pivot: the bitsets are scanned in ascending index.
choose_pivot_bits(P, X) ==
    LET bestP == {v \in P : \A w \in P : BitCount(P, v) >= BitCount(P, w)}
        bestX == {v \in X : \A w \in X : BitCount(P, v) >= BitCount(P, w)}
        first(S) == CHOOSE v \in S : \A w \in S : v <= w
    IN IF P = {} /\ X = {} THEN -1
       ELSE IF P = {} THEN first(bestX)
       ELSE IF \E x \in X : \A v \in P : BitCount(P, x) > BitCount(P, v) THEN first(bestX)
       ELSE first(bestP)

choose_pivot(P, X) ==
    IF algo = "CPUOptimized" THEN {choose_pivot_bits(P, X)} ELSE choose_pivot_set(P, X)

NeighboursOf_All(v) == Verts \ {v}

\* N(v) as the solver reads it: the precomputed bitset or get_neighbors.
NeighboursOf(v) == IF algo = "CPUOptimized" THEN cpu.neighbors[v] ELSE get_neighbors(v)

\* A recursion node of bron_kerbosch / tomita_recursive / tomita_with_pivot /
\* optimized_bk on entry: its by-value parameters R, P, X.
Node(R, P, X) ==
    [R |-> R, P |-> P, X |-> X, P0 |-> P, X0 |-> X, pivot |-> -1, cand |-> {},
     remaining_size |-> Cardinality(P), v |-> -1, at |-> "enter"]

Top == stack[Len(stack)]
SetTop(f) == [stack EXCEPT ![Len(stack)] = f]

\* ------------------------------------------- the implementation's choices

\* The solvers whose code leaves nothing to the iteration order of an
\* unordered_set or to the order std::sort gives equal keys inside the search
\* (the one top-level sort of OstergardAlgorithm and BBMC is kept in `sorted`).
FixedOrderSolvers == {"CPUOptimized", "OstergardAlgorithm", "BBMC_DEGREE_ORDER",
                      "BBMC_MIN_WIDTH_ORDER", "BBMC_MCR_ORDER"}

\* The program is sequential and draws nothing from a clock, a random source
\* or an address: on the same state, the same container operations visit the
\* same elements in the same order.  prev.log keeps the first call's choices
\* and a second call on the same object replays them for as long as it meets
\* the same choice points.
Recording == calls = 0 /\ n <= MaxReplayN
Replaying == calls = 1 /\ prev.algo = algo

Entry(kind, val) == [kind |-> kind, val |-> val]

\* The outcomes open to the k-th choice of a step.
Recorded(k, kind, S) ==
    IF Replaying /\ Len(prev.log) >= k
    THEN IF prev.log[k].kind = kind
         THEN IF prev.log[k].val \in S THEN {prev.log[k].val} ELSE S
         ELSE S
    ELSE S

\* The step made the choices `entries`.
Log(entries) ==
    prev' = IF Recording THEN [prev EXCEPT !.log = @ \o entries]
            ELSE IF Replaying
            THEN [prev EXCEPT !.log = SubSeq(@, Len(entries) + 1, Len(@))]
            ELSE prev

\* ---------------------------------------------- the (R, P, X) recursion

\* max_clique.assign(R.begin(), R.end()) / bitset_to_vector(R)
AsVector(R) ==
    IF algo = "CPUOptimized" THEN SortedOrders(R, [v \in R |-> 0 - v])
    ELSE IterationOrders(R)

\* The vertices the node's loop may take next.
NextCandidates(f) ==
    IF algo = "CPUOptimized"
    THEN {v \in f.cand : \A w \in f.cand : v <= w}
    ELSE IF ColouringBound(algo)
    THEN {v \in f.cand : \A w \in f.cand : DegIn(f.P0, v) >= DegIn(f.P0, w)}
    ELSE f.cand

\* Entry of a recursion node: the bounds, the base case, the pivot and the
\* candidate list, up to the head of the loop.
EnterNode ==
    /\ pc = "search" /\ algo \in RPXSolvers
    /\ stack # <<>> /\ Top.at = "enter"
    /\ LET f == Top
           R == f.R
           P == f.P
           X == f.X
       IN \E coloring_bound \in
                (IF ColouringBound(algo)
                 THEN Recorded(1, "coloring_bound", compute_coloring_bound(P))
                 ELSE {0}) :
            LET bound == IF ColouringBound(algo)
                         THEN <<Entry("coloring_bound", coloring_bound)>> ELSE <<>>
                k == Len(bound) + 1
            IN IF ColouringBound(algo)
                  /\ Cardinality(R) + coloring_bound <= Len(max_clique)
               THEN /\ stack' = SetTop([f EXCEPT !.at = "return"])
                    /\ UNCHANGED max_clique
                    /\ Log(bound)
               ELSE IF Cardinality(R) + Cardinality(P) <= Len(max_clique)
               THEN /\ stack' = SetTop([f EXCEPT !.at = "return"])
                    /\ UNCHANGED max_clique
                    /\ Log(bound)
               ELSE IF P = {} /\ X = {}
               THEN /\ stack' = SetTop([f EXCEPT !.at = "return"])
                    /\ IF Cardinality(R) > Len(max_clique)
                       THEN \E vec \in Recorded(k, "assign", AsVector(R)) :
                              /\ max_clique' = vec
                              /\ Log(bound \o <<Entry("assign", vec)>>)
                       ELSE /\ UNCHANGED max_clique
                            /\ Log(bound)
               ELSE /\ UNCHANGED max_clique
                    /\ IF Pivoting(algo)
                       THEN \E pivot \in Recorded(k, "pivot", choose_pivot(P, X)) :
                              /\ stack' = SetTop([f EXCEPT
                                    !.pivot = pivot,
                                    !.cand = IF pivot # -1 THEN P \ NeighboursOf(pivot)
                                             ELSE P,
                                    !.at = "loop"])
                              /\ Log(bound \o <<Entry("pivot", pivot)>>)
                       ELSE /\ stack' = SetTop([f EXCEPT !.cand = P, !.at = "loop"])
                            /\ Log(bound)
    /\ UNCHANGED <<now, gvars, qvars, algo, pc, outer, cur, bb, cpu, sorted, calls>>

LoopBreak_Eager(f) ==
    IF algo = "BronKerboschSeeded" THEN FALSE
    ELSE IF algo = "CPUOptimized"
    THEN Cardinality(f.R) + f.remaining_size <= Len(max_clique) + 1
    ELSE Cardinality(f.R) + Cardinality(f.P) <= Len(max_clique) + 1

\* The early-termination test at the head of a loop iteration; the seeded
\* BronKerbosch has none.
LoopBreak(f) ==
    IF algo = "BronKerboschSeeded" THEN FALSE
    ELSE IF algo = "CPUOptimized"
    THEN Cardinality(f.R) + 1 + f.remaining_size <= Len(max_clique)
    ELSE Cardinality(f.R) + 1 + Cardinality(f.P) <= Len(max_clique)

LoopNode_EntryX ==
    /\ pc = "search" /\ algo \in RPXSolvers
    /\ stack # <<>> /\ Top.at = "loop"
    /\ LET f == Top
       IN IF f.cand = {} \/ LoopBreak(f)
          THEN /\ stack' = SetTop([f EXCEPT !.at = "return"])
               /\ UNCHANGED prev
          ELSE \E v \in Recorded(1, "v", NextCandidates(f)) :
                 /\ stack' = Append(
                        SetTop([f EXCEPT !.v = v, !.cand = @ \ {v}, !.at = "call"]),
                        Node(f.R \cup {v},
                             f.P \cap NeighboursOf(v),
                             f.X0 \cap NeighboursOf(v)))
                 /\ Log(<<Entry("v", v)>>)
    /\ UNCHANGED <<now, gvars, qvars, algo, pc, max_clique, outer, cur, bb, cpu, sorted,
                   calls>>

\* One iteration of the node's loop up to the recursive call, or the loop's end.
LoopNode ==
    /\ pc = "search" /\ algo \in RPXSolvers
    /\ stack # <<>> /\ Top.at = "loop"
    /\ LET f == Top
       IN IF f.cand = {} \/ LoopBreak(f)
          THEN /\ stack' = SetTop([f EXCEPT !.at = "return"])
               /\ UNCHANGED prev
          ELSE \E v \in Recorded(1, "v", NextCandidates(f)) :
                 /\ stack' = Append(
                        SetTop([f EXCEPT !.v = v, !.cand = @ \ {v}, !.at = "call"]),
                        Node(f.R \cup {v},
                             f.P \cap NeighboursOf(v),
                             f.X \cap NeighboursOf(v)))
                 /\ Log(<<Entry("v", v)>>)
    /\ UNCHANGED <<now, gvars, qvars, algo, pc, max_clique, outer, cur, bb, cpu, sorted,
                   calls>>

ReturnNode_KeepP ==
    /\ pc = "search" /\ algo \in RPXSolvers
    /\ stack # <<>> /\ Top.at = "return"
    /\ LET rest == SubSeq(stack, 1, Len(stack) - 1)
       IN IF rest = <<>> THEN stack' = rest
          ELSE LET g == rest[Len(rest)]
               IN stack' = [rest EXCEPT ![Len(rest)] =
                     [g EXCEPT !.X = @ \cup {g.v},
                               !.remaining_size = @ - 1, !.at = "loop"]]
    /\ UNCHANGED <<now, gvars, qvars, algo, pc, max_clique, outer, cur, bb, cpu, sorted,
                   calls, prev>>

ReturnNode_NoX ==
    /\ pc = "search" /\ algo \in RPXSolvers
    /\ stack # <<>> /\ Top.at = "return"
    /\ LET rest == SubSeq(stack, 1, Len(stack) - 1)
       IN IF rest = <<>> THEN stack' = rest
          ELSE LET g == rest[Len(rest)]
               IN stack' = [rest EXCEPT ![Len(rest)] =
                     [g EXCEPT !.P = @ \ {g.v},
                               !.remaining_size = @ - 1, !.at = "loop"]]
    /\ UNCHANGED <<now, gvars, qvars, algo, pc, max_clique, outer, cur, bb, cpu, sorted,
                   calls, prev>>

\* The node returns; its caller moves v from P to X.
ReturnNode ==
    /\ pc = "search" /\ algo \in RPXSolvers
    /\ stack # <<>> /\ Top.at = "return"
    /\ LET rest == SubSeq(stack, 1, Len(stack) - 1)
       IN IF rest = <<>> THEN stack' = rest
          ELSE LET g == rest[Len(rest)]
               IN stack' = [rest EXCEPT ![Len(rest)] =
                     [g EXCEPT !.P = @ \ {g.v}, !.X = @ \cup {g.v},
                               !.remaining_size = @ - 1, !.at = "loop"]]
    /\ UNCHANGED <<now, gvars, qvars, algo, pc, max_clique, outer, cur, bb, cpu, sorted,
                   calls, prev>>

OuterLoop_AllNeighbours ==
    /\ pc = "search" /\ Degeneracy(algo)
    /\ stack = <<>> /\ outer.i < Len(outer.ordering)
    /\ LET i == outer.i
           v == outer.ordering[i + 1]
           position == [u \in Verts |->
                           (CHOOSE k \in 1..Len(outer.ordering) : outer.ordering[k] = u) - 1]
           later == get_neighbors(v)
           earlier == {u \in get_neighbors(v) : position[u] < i}
       IN /\ outer' = [outer EXCEPT !.i = i + 1]
          /\ IF algo = "DegeneracyBKSeeded" /\ 1 + Cardinality(later) <= Len(max_clique)
             THEN stack' = stack
             ELSE stack' = <<Node({v}, later, earlier)>>
    /\ UNCHANGED <<now, gvars, qvars, algo, pc, max_clique, cur, bb, cpu, sorted, calls, prev>>

\* DegeneracyBK::find_maximum_clique, one pass of the loop over the ordering.
OuterLoop ==
    /\ pc = "search" /\ Degeneracy(algo)
    /\ stack = <<>> /\ outer.i < Len(outer.ordering)
    /\ LET i == outer.i
           v == outer.ordering[i + 1]
           position == [u \in Verts |->
                           (CHOOSE k \in 1..Len(outer.ordering) : outer.ordering[k] = u) - 1]
           later == {u \in get_neighbors(v) : position[u] > i}
           earlier == {u \in get_neighbors(v) : position[u] < i}
       IN /\ outer' = [outer EXCEPT !.i = i + 1]
          /\ IF algo = "DegeneracyBKSeeded" /\ 1 + Cardinality(later) <= Len(max_clique)
             THEN stack' = stack
             ELSE stack' = <<Node({v}, later, earlier)>>
    /\ UNCHANGED <<now, gvars, qvars, algo, pc, max_clique, cur, bb, cpu, sorted, calls, prev>>

\* find_maximum_clique of the (R, P, X) solvers, up to the first recursive call.
StartRPX ==
    /\ pc = "idle" /\ algo \in RPXSolvers
    /\ IF algo = "CPUOptimized" /\ n > cpu.MAX_VERTICES
       THEN /\ pc' = "thrown" /\ ret' = "throw" /\ calls' = calls + 1
            /\ cpu' = [cpu EXCEPT !.n = n]
            /\ UNCHANGED <<max_clique, stack, outer, prev>>
       ELSE /\ pc' = "search"
            /\ UNCHANGED <<ret, calls>>
            /\ IF Seeded(algo)
               THEN \E seed \in Recorded(1, "seed", find_greedy_clique) :
                      /\ max_clique' = seed
                      /\ Log(<<Entry("seed", seed)>>)
               ELSE /\ max_clique' = <<>>
                    /\ UNCHANGED prev
            /\ cpu' = IF algo = "CPUOptimized"
                      THEN [cpu EXCEPT !.n = n,
                                       !.neighbors = [v \in Verts |-> get_neighbors(v)]]
                      ELSE cpu
            /\ IF Degeneracy(algo)
               THEN /\ outer' = [i |-> 0, ordering |-> compute_degeneracy_ordering]
                    /\ stack' = <<>>
               ELSE /\ outer' = outer
                    /\ stack' = <<Node({}, Verts, {})>>
    /\ UNCHANGED <<now, gvars, op, arg, algo, cur, bb, sorted>>

\* find_maximum_clique returns max_clique.
Finish ==
    /\ pc = "search" /\ stack = <<>>
    /\ Degeneracy(algo) => outer.i >= Len(outer.ordering)
    /\ pc' = "done"
    /\ ret' = max_clique
    /\ calls' = calls + 1
    /\ UNCHANGED <<now, gvars, op, arg, algo, max_clique, stack, outer, cur, bb, cpu, sorted, prev>>

\* --------------------------------------------------- OstergardAlgorithm

\* OstergardAlgorithm::color_bound: greedy colouring in the order of the list.
\* (t, cs, vc, nc are the arguments, bound once per level of the recursion.)
RECURSIVE color_bound_loop(_, _, _, _)
color_bound_loop(todo, candidates, vertex_color, num_colors) ==
    IF todo = <<>> THEN [vertex_color |-> vertex_color, num_colors |-> num_colors]
    ELSE CHOOSE result \in
            {LET v == Head(t)
                 used == {vc[u] :
                            u \in {w \in Range(cs) :
                                     w # v /\ has_edge(v, w) /\ vc[w] >= 0}}
                 color == CHOOSE c \in 0..Len(cs) :
                             c \notin used /\ \A d \in 0..(c - 1) : d \in used
             IN color_bound_loop(Tail(t), cs, [vc EXCEPT ![v] = color],
                                 Max2(nc, color + 1))
             : <<t, cs, vc, nc>> \in {<<todo, candidates, vertex_color, num_colors>>}} : TRUE

color_bound_Zero(candidates) == 0

color_bound(candidates) ==
    IF candidates = <<>> THEN 0
    ELSE color_bound_loop(candidates, candidates, Uncoloured, 0).num_colors

\* The elements of a list that satisfy keep, in their order.
RECURSIVE Filter(_, _)
Filter(list, keep) ==
    IF list = <<>> THEN <<>>
    ELSE IF Head(list) \in keep THEN <<Head(list)>> \o Filter(Tail(list), keep)
    ELSE Filter(Tail(list), keep)

OstNode(current, candidates) ==
    [current |-> current, candidates |-> candidates, v |-> -1, at |-> "enter"]

EnterOstergard_OrEqual ==
    /\ pc = "search" /\ algo = "OstergardAlgorithm"
    /\ stack # <<>> /\ Top.at = "enter"
    /\ LET f == Top
           best == IF Len(f.current) >= Len(max_clique) THEN f.current ELSE max_clique
       IN /\ max_clique' = best
          /\ IF f.candidates = <<>>
             THEN stack' = SetTop([f EXCEPT !.at = "return"])
             ELSE IF Len(f.current) + color_bound(f.candidates) <= Len(best)
             THEN stack' = SetTop([f EXCEPT !.at = "return"])
             ELSE stack' = SetTop([f EXCEPT !.at = "loop"])
    /\ UNCHANGED <<now, gvars, qvars, algo, pc, outer, cur, bb, cpu, sorted, calls, prev>>

\* branch_and_bound up to the head of its while loop.
EnterOstergard ==
    /\ pc = "search" /\ algo = "OstergardAlgorithm"
    /\ stack # <<>> /\ Top.at = "enter"
    /\ LET f == Top
           best == IF Len(f.current) > Len(max_clique) THEN f.current ELSE max_clique
       IN /\ max_clique' = best
          /\ IF f.candidates = <<>>
             THEN stack' = SetTop([f EXCEPT !.at = "return"])
             ELSE IF Len(f.current) + color_bound(f.candidates) <= Len(best)
             THEN stack' = SetTop([f EXCEPT !.at = "return"])
             ELSE stack' = SetTop([f EXCEPT !.at = "loop"])
    /\ UNCHANGED <<now, gvars, qvars, algo, pc, outer, cur, bb, cpu, sorted, calls, prev>>

LoopOstergard_NoPop ==
    /\ pc = "search" /\ algo = "OstergardAlgorithm"
    /\ stack # <<>> /\ Top.at = "loop"
    /\ LET f == Top
       IN IF f.candidates = <<>>
          THEN stack' = SetTop([f EXCEPT !.at = "return"])
          ELSE LET v == f.candidates[Len(f.candidates)]
                   candidates == f.candidates
                   new_candidates ==
                       Filter(candidates,
                              {u \in Verts : has_edge(v, u)
                                   /\ \A w \in Range(f.current) : has_edge(u, w)})
               IN IF Len(f.current) + Len(candidates) + 1 <= Len(max_clique)
                  THEN stack' = SetTop([f EXCEPT !.candidates = candidates,
                                                 !.v = v, !.at = "return"])
                  ELSE stack' = Append(
                         SetTop([f EXCEPT !.candidates = candidates,
                                          !.v = v, !.at = "call"]),
                         OstNode(Append(f.current, v), new_candidates))
    /\ UNCHANGED <<now, gvars, qvars, algo, pc, max_clique, outer, cur, bb, cpu, sorted,
                   calls, prev>>

\* One iteration of the while loop of branch_and_bound up to the recursive call.
LoopOstergard ==
    /\ pc = "search" /\ algo = "OstergardAlgorithm"
    /\ stack # <<>> /\ Top.at = "loop"
    /\ LET f == Top
       IN IF f.candidates = <<>>
          THEN stack' = SetTop([f EXCEPT !.at = "return"])
          ELSE LET v == f.candidates[Len(f.candidates)]
                   candidates == SubSeq(f.candidates, 1, Len(f.candidates) - 1)
                   new_candidates ==
                       Filter(candidates,
                              {u \in Verts : has_edge(v, u)
                                   /\ \A w \in Range(f.current) : has_edge(u, w)})
               IN IF Len(f.current) + Len(candidates) + 1 <= Len(max_clique)
                  THEN stack' = SetTop([f EXCEPT !.candidates = candidates,
                                                 !.v = v, !.at = "return"])
                  ELSE stack' = Append(
                         SetTop([f EXCEPT !.candidates = candidates,
                                          !.v = v, !.at = "call"]),
                         OstNode(Append(f.current, v), new_candidates))
    /\ UNCHANGED <<now, gvars, qvars, algo, pc, max_clique, outer, cur, bb, cpu, sorted,
                   calls, prev>>

ReturnOstergard ==
    /\ pc = "search" /\ algo = "OstergardAlgorithm"
    /\ stack # <<>> /\ Top.at = "return"
    /\ LET rest == SubSeq(stack, 1, Len(stack) - 1)
       IN IF rest = <<>> THEN stack' = rest
          ELSE stack' = [rest EXCEPT ![Len(rest)] = [@ EXCEPT !.at = "loop"]]
    /\ UNCHANGED <<now, gvars, qvars, algo, pc, max_clique, outer, cur, bb, cpu, sorted,
                   calls, prev>>

\* OstergardAlgorithm::find_maximum_clique up to the first branch_and_bound.
StartOstergard ==
    /\ pc = "idle" /\ algo = "OstergardAlgorithm"
    /\ pc' = "search"
    /\ max_clique' = <<>>
    /\ stack' = <<OstNode(<<>>, sorted)>>
    /\ UNCHANGED <<now, gvars, qvars, algo, outer, cur, bb, cpu, sorted, calls, prev>>

\* --------------------------------------------------------- MaxCliqueDyn

\* MaxCliqueDyn::color_graph: the colourings it can return for P, one per
\* order order_by_degree can leave.
color_graph(P) ==
    IF P = {} THEN {Uncoloured}
    ELSE {sequential_colouring(o, P, Uncoloured) :
            o \in SortedOrders(P, [v \in P |-> DegIn(P, v)])}

DynNode(P) ==
    [P |-> P, colors |-> Uncoloured, c |-> -1, color_class |-> <<>>, v |-> -1,
     at |-> "enter"]

\* maxclique_dyn_recursive up to the loop over the colour classes.
EnterDyn ==
    /\ pc = "search" /\ algo = "MaxCliqueDyn"
    /\ stack # <<>> /\ Top.at = "enter"
    /\ LET f == Top
       IN IF f.P = {}
          THEN /\ max_clique' = IF Len(cur) > Len(max_clique) THEN cur ELSE max_clique
               /\ stack' = SetTop([f EXCEPT !.at = "return"])
               /\ UNCHANGED prev
          ELSE /\ UNCHANGED max_clique
               /\ \E colors \in Recorded(1, "colors", color_graph(f.P)) :
                    LET chromatic_number == MaxColour(colors) + 1
                    IN /\ Log(<<Entry("colors", colors)>>)
                       /\ IF Len(cur) + chromatic_number <= Len(max_clique)
                          THEN stack' = SetTop([f EXCEPT !.at = "return"])
                          ELSE stack' = SetTop([f EXCEPT !.colors = colors,
                                                         !.c = chromatic_number - 1,
                                                         !.at = "class"])
    /\ UNCHANGED <<now, gvars, qvars, algo, pc, outer, cur, bb, cpu, sorted, calls>>

\* The head of the loop over the colour classes: the class bound and the sort
\* of the class.
ClassDyn ==
    /\ pc = "search" /\ algo = "MaxCliqueDyn"
    /\ stack # <<>> /\ Top.at = "class"
    /\ LET f == Top
       IN IF f.c < 0 \/ Len(cur) + (f.c + 1) <= Len(max_clique)
          THEN /\ stack' = SetTop([f EXCEPT !.at = "return"])
               /\ UNCHANGED prev
          ELSE LET members == {v \in f.P : f.colors[v] = f.c}
               IN \E color_class \in
                       Recorded(1, "color_class",
                                SortedOrders(members, [v \in members |-> DegIn(f.P, v)])) :
                     /\ stack' = SetTop([f EXCEPT !.color_class = color_class,
                                                  !.at = "loop"])
                     /\ Log(<<Entry("color_class", color_class)>>)
    /\ UNCHANGED <<now, gvars, qvars, algo, pc, max_clique, outer, cur, bb, cpu, sorted,
                   calls>>

\* One vertex of the colour class, up to the recursive call.
LoopDyn ==
    /\ pc = "search" /\ algo = "MaxCliqueDyn"
    /\ stack # <<>> /\ Top.at = "loop"
    /\ LET f == Top
       IN IF f.color_class = <<>>
          THEN /\ stack' = SetTop([f EXCEPT !.c = @ - 1, !.at = "class"])
               /\ UNCHANGED cur
          ELSE LET v == Head(f.color_class)
               IN IF Len(cur) + (f.c + 1) <= Len(max_clique)
                  THEN /\ stack' = SetTop([f EXCEPT !.at = "return"])
                       /\ UNCHANGED cur
                  ELSE /\ cur' = Append(cur, v)
                       /\ stack' = Append(
                            SetTop([f EXCEPT !.v = v, !.color_class = Tail(@),
                                             !.at = "call"]),
                            DynNode(intersect_with_neighbors(f.P, v)))
    /\ UNCHANGED <<now, gvars, qvars, algo, pc, max_clique, outer, bb, cpu, sorted,
                   calls, prev>>

\* The node returns; its caller pops v off R and erases it from P.
ReturnDyn ==
    /\ pc = "search" /\ algo = "MaxCliqueDyn"
    /\ stack # <<>> /\ Top.at = "return"
    /\ LET rest == SubSeq(stack, 1, Len(stack) - 1)
       IN IF rest = <<>>
          THEN /\ stack' = rest
               /\ UNCHANGED cur
          ELSE /\ cur' = SubSeq(cur, 1, Len(cur) - 1)
               /\ stack' = [rest EXCEPT ![Len(rest)] =
                              [@ EXCEPT !.P = @ \ {rest[Len(rest)].v}, !.at = "loop"]]
    /\ UNCHANGED <<now, gvars, qvars, algo, pc, max_clique, outer, bb, cpu, sorted,
                   calls, prev>>

\* MaxCliqueDyn::find_maximum_clique up to the first recursive call.
StartDyn ==
    /\ pc = "idle" /\ algo = "MaxCliqueDyn"
    /\ pc' = "search"
    /\ \E seed \in Recorded(1, "seed", find_greedy_clique) :
         /\ max_clique' = seed
         /\ Log(<<Entry("seed", seed)>>)
    /\ cur' = <<>>
    /\ stack' = <<DynNode(Verts)>>
    /\ UNCHANGED <<now, gvars, qvars, algo, outer, bb, cpu, sorted, calls>>

\* ------------------------------------------------------------------ BBMC

BBMCStyles == {"BBMC_DEGREE_ORDER", "BBMC_MIN_WIDTH_ORDER", "BBMC_MCR_ORDER"}

\* BBMC::Vertex(idx, deg)
Vertex(idx, deg) == [index |-> idx, degree |-> deg, neb_degree |-> 0]

\* order_vertices, first loop: the sum of the neighbours' degrees.
NebDegree(i) == SumOver({j \in Verts : has_edge(i, j)}, [j \in Verts |-> get_degree(j)])

\* BBMC::min_width_order: the positions of `vertices` in the order it emits.
RECURSIVE min_width_loop(_, _, _, _, _)
min_width_loop(iter, vertices, ordered, current_degree, result) ==
    IF iter >= n THEN result
    ELSE LET live == {i \in Verts : ~ordered[i] /\ current_degree[i] < n + 1}
         IN IF live = {} THEN result
            ELSE LET min_idx == CHOOSE i \in live :
                                  /\ \A j \in live : current_degree[i] <= current_degree[j]
                                  /\ \A j \in live :
                                        current_degree[j] = current_degree[i] => i <= j
                     ordered1 == [ordered EXCEPT ![min_idx] = TRUE]
                     u == vertices[min_idx].index
                     degree1 == [i \in Verts |->
                                   IF ~ordered1[i] /\ has_edge(u, vertices[i].index)
                                   THEN current_degree[i] - 1 ELSE current_degree[i]]
                 IN min_width_loop(iter + 1, vertices, ordered1, degree1,
                                   Append(result, vertices[min_idx]))

min_width_order(vertices) ==
    min_width_loop(0, vertices, [i \in Verts |-> FALSE],
                   [i \in Verts |-> vertices[i].degree], <<>>)

\* The key under which std::sort orders the solver's initial vertex array
\* (largest first): Vertex::operator<, the MCR lambda, Ostergard's lambda.
SortKey(a, v) ==
    IF a = "BBMC_DEGREE_ORDER" THEN get_degree(v) * (n * n + 1) + NebDegree(v)
    ELSE IF a = "BBMC_MCR_ORDER" THEN NebDegree(v) * (n + 1) + get_degree(v)
    ELSE IF a = "OstergardAlgorithm" THEN get_degree(v)
    ELSE 0

\* BBMC::order_vertices: V after the ordering, then N and invN over positions.
order_vertices ==
    LET V0 == [i \in Verts |-> [Vertex(i, get_degree(i)) EXCEPT !.neb_degree = NebDegree(i)]]
        list == IF algo = "BBMC_MIN_WIDTH_ORDER" THEN min_width_order(V0)
                ELSE [k \in 1..Len(sorted) |-> V0[sorted[k]]]
        V == [i \in Verts |-> list[i + 1]]
    IN [V |-> V,
        N |-> [i \in Verts |-> {j \in Verts : has_edge(V[i].index, V[j].index)}],
        invN |-> [i \in Verts |-> {j \in Verts : ~has_edge(V[i].index, V[j].index)}]]

\* BBMC::bb_colour: U and colour, filled class by class, lowest set bit first.
RECURSIVE bb_colour_loop(_, _, _, _, _)
bb_colour_loop(copyP, Q, colour_class, U, colour) ==
    IF Q = {}
    THEN IF copyP = {} THEN [U |-> U, colour |-> colour]
         ELSE bb_colour_loop(copyP, copyP, colour_class + 1, U, colour)
    ELSE LET v == CHOOSE j \in Q : \A k \in Q : j <= k
         IN bb_colour_loop(copyP \ {v}, (Q \ {v}) \cap bb.invN[v], colour_class,
                           Append(U, v), Append(colour, colour_class))

RECURSIVE bb_colour_loop_NoFilter(_, _, _, _, _)
bb_colour_loop_NoFilter(copyP, Q, colour_class, U, colour) ==
    IF Q = {}
    THEN IF copyP = {} THEN [U |-> U, colour |-> colour]
         ELSE bb_colour_loop_NoFilter(copyP, copyP, colour_class + 1, U, colour)
    ELSE LET v == CHOOSE j \in Q : \A k \in Q : j <= k
         IN bb_colour_loop_NoFilter(copyP \ {v}, Q \ {v}, colour_class,
                                    Append(U, v), Append(colour, colour_class))

bb_colour_NoFilter(P) == bb_colour_loop_NoFilter(P, {}, 0, <<>>, <<>>)

bb_colour(P) == bb_colour_loop(P, {}, 0, <<>>, <<>>)

RECURSIVE save_solution_loop_Positions(_, _)
save_solution_loop_Positions(i, C) ==
    IF i >= n THEN <<>>
    ELSE (IF i \in C THEN <<i>> ELSE <<>>) \o save_solution_loop_Positions(i + 1, C)

\* BBMC::save_solution: the original ids of the positions set in C, ascending.
RECURSIVE save_solution_loop(_, _)
save_solution_loop(i, C) ==
    IF i >= n THEN <<>>
    ELSE (IF i \in C THEN <<bb.V[i].index>> ELSE <<>>) \o save_solution_loop(i + 1, C)

save_solution(C) == save_solution_loop(0, C)

BBNode(P) == [P |-> P, U |-> <<>>, colour |-> <<>>, i |-> -1, v |-> -1, at |-> "enter"]

\* bb_max_clique up to the head of its loop.
EnterBBMC ==
    /\ pc = "search" /\ algo \in BBMCStyles
    /\ stack # <<>> /\ Top.at = "enter"
    /\ LET f == Top
           mm == Cardinality(f.P)
       IN IF mm = 0
          THEN /\ stack' = SetTop([f EXCEPT !.at = "return"])
               /\ IF Cardinality(cur) > bb.max_size
                  THEN /\ max_clique' = save_solution(cur)
                       /\ bb' = [bb EXCEPT !.nodes_explored = @ + 1,
                                           !.max_size = Len(save_solution(cur))]
                  ELSE /\ UNCHANGED max_clique
                       /\ bb' = [bb EXCEPT !.nodes_explored = @ + 1]
          ELSE /\ UNCHANGED max_clique
               /\ bb' = [bb EXCEPT !.nodes_explored = @ + 1]
               /\ stack' = SetTop([f EXCEPT !.U = bb_colour(f.P).U,
                                            !.colour = bb_colour(f.P).colour,
                                            !.i = mm - 1, !.at = "loop"])
    /\ UNCHANGED <<now, gvars, qvars, algo, pc, outer, cur, cpu, sorted, calls, prev>>

\* One iteration of the loop of bb_max_clique: either whole (newP is empty)
\* or up to the recursive call.
LoopBBMC ==
    /\ pc = "search" /\ algo \in BBMCStyles
    /\ stack # <<>> /\ Top.at = "loop"
    /\ LET f == Top
       IN IF f.i < 0
          THEN /\ stack' = SetTop([f EXCEPT !.at = "return"])
               /\ UNCHANGED <<cur, max_clique, bb>>
          ELSE IF f.colour[f.i + 1] + Cardinality(cur) <= bb.max_size
          THEN /\ stack' = SetTop([f EXCEPT !.at = "return"])
               /\ UNCHANGED <<cur, max_clique, bb>>
          ELSE LET v == f.U[f.i + 1]
                   newP == f.P \cap bb.N[v]
                   C == cur \cup {v}
               IN IF newP = {}
                  THEN /\ IF Cardinality(C) > bb.max_size
                          THEN /\ max_clique' = save_solution(C)
                               /\ bb' = [bb EXCEPT !.max_size = Len(save_solution(C))]
                          ELSE UNCHANGED <<max_clique, bb>>
                       /\ cur' = C \ {v}
                       /\ stack' = SetTop([f EXCEPT !.P = @ \ {v}, !.v = v, !.i = @ - 1])
                  ELSE /\ cur' = C
                       /\ UNCHANGED <<max_clique, bb>>
                       /\ stack' = Append(SetTop([f EXCEPT !.v = v, !.at = "call"]),
                                          BBNode(newP))
    /\ UNCHANGED <<now, gvars, qvars, algo, pc, outer, cpu, sorted, calls, prev>>

ReturnBBMC_KeepP ==
    /\ pc = "search" /\ algo \in BBMCStyles
    /\ stack # <<>> /\ Top.at = "return"
    /\ LET rest == SubSeq(stack, 1, Len(stack) - 1)
       IN IF rest = <<>>
          THEN /\ stack' = rest
               /\ UNCHANGED cur
          ELSE LET g == rest[Len(rest)]
               IN /\ cur' = cur \ {g.v}
                  /\ stack' = [rest EXCEPT ![Len(rest)] =
                        [g EXCEPT !.i = @ - 1, !.at = "loop"]]
    /\ UNCHANGED <<now, gvars, qvars, algo, pc, max_clique, outer, bb, cpu, sorted,
                   calls, prev>>

\* The node returns; its caller backtracks: P.reset(v), C.reset(v).
ReturnBBMC ==
    /\ pc = "search" /\ algo \in BBMCStyles
    /\ stack # <<>> /\ Top.at = "return"
    /\ LET rest == SubSeq(stack, 1, Len(stack) - 1)
       IN IF rest = <<>>
          THEN /\ stack' = rest
               /\ UNCHANGED cur
          ELSE LET g == rest[Len(rest)]
               IN /\ cur' = cur \ {g.v}
                  /\ stack' = [rest EXCEPT ![Len(rest)] =
                        [g EXCEPT !.P = @ \ {g.v}, !.i = @ - 1, !.at = "loop"]]
    /\ UNCHANGED <<now, gvars, qvars, algo, pc, max_clique, outer, bb, cpu, sorted,
                   calls, prev>>

StartBBMC_KeepCount ==
    /\ pc = "idle" /\ algo \in BBMCStyles
    /\ pc' = "search"
    /\ max_clique' = <<>>
    /\ bb' = [V |-> order_vertices.V, N |-> order_vertices.N,
              invN |-> order_vertices.invN, max_size |-> 0,
              nodes_explored |-> bb.nodes_explored]
    /\ cur' = {}
    /\ stack' = <<BBNode(Verts)>>
    /\ UNCHANGED <<now, gvars, qvars, algo, outer, cpu, sorted, calls, prev>>

\* BBMC::find_maximum_clique up to the first bb_max_clique.
StartBBMC ==
    /\ pc = "idle" /\ algo \in BBMCStyles
    /\ pc' = "search"
    /\ max_clique' = <<>>
    /\ bb' = [V |-> order_vertices.V, N |-> order_vertices.N,
              invN |-> order_vertices.invN, max_size |-> 0, nodes_explored |-> 0]
    /\ cur' = {}
    /\ stack' = <<BBNode(Verts)>>
    /\ UNCHANGED <<now, gvars, qvars, algo, outer, cpu, sorted, calls, prev>>

\* BBMC::BBMC: the fields as the constructor leaves them.
NewBBMC(nn) ==
    [V |-> [i \in 0..(nn - 1) |-> Vertex(0, 0)],
     N |-> [i \in 0..(nn - 1) |-> {}],
     invN |-> [i \in 0..(nn - 1) |-> {}],
     max_size |-> 0, nodes_explored |-> 0]

\* ---------------------------------------------------------- the two calls

SeededVersion(a) ==
    IF a = "BronKerbosch" THEN "BronKerboschSeeded"
    ELSE IF a = "TomitaAlgorithm" THEN "TomitaAlgorithmSeeded"
    ELSE IF a = "DegeneracyBK" THEN "DegeneracyBKSeeded"
    ELSE a

\* The caller keeps the returned list and calls find_maximum_clique again: on
\* the same solver object, or on an object of the class's greedy-seeded version.
CallAgain ==
    /\ pc = "done" /\ calls = 1
    /\ \E a \in {algo, SeededVersion(algo)} :
         /\ a = algo => (algo \in FixedOrderSolvers \/ n <= MaxReplayN)
         /\ algo' = a
         /\ max_clique' = IF a = algo THEN max_clique ELSE <<>>
    /\ pc' = "idle"
    /\ prev' = [algo |-> algo, clique |-> ret,
                nodes |-> IF algo \in BBMCStyles THEN bb.nodes_explored ELSE 0,
                log |-> prev.log]
    /\ UNCHANGED <<now, gvars, qvars, stack, outer, cur, bb, cpu, sorted, calls>>

\* A simple graph as load_from_snap or self-loop-free add_edge calls build it.
SimpleGraph(nn, E) ==
    [lst |-> [v \in 0..(nn - 1) |->
                {u \in 0..(nn - 1) : <<u, v>> \in E \/ <<v, u>> \in E}],
     mat |-> [u \in 0..(nn - 1) |-> [v \in 0..(nn - 1) |->
                <<u, v>> \in E \/ <<v, u>> \in E]],
     m   |-> Cardinality(E)]

Solvers == RPXSolvers \cup {"OstergardAlgorithm", "MaxCliqueDyn"} \cup BBMCStyles

\* Named graphs beyond MaxN: a triangle with a pendant vertex, K4 less an
\* edge, a graph on which find_greedy_clique stops at an edge although a
\* triangle exists, K3,3, and the disjoint union of K4 and K3.
ExampleGraphs ==
    {[n |-> 4, E |-> {<<0, 1>>, <<0, 2>>, <<1, 2>>, <<0, 3>>}],
     [n |-> 4, E |-> {<<0, 1>>, <<0, 2>>, <<0, 3>>, <<1, 2>>, <<1, 3>>}],
     [n |-> 6, E |-> {<<0, 1>>, <<0, 2>>, <<0, 3>>, <<1, 4>>, <<1, 5>>, <<4, 5>>}],
     [n |-> 6, E |-> {0, 1, 2} \X {3, 4, 5}],
     [n |-> 7, E |-> {e \in (0..3) \X (0..3) : e[1] < e[2]}
                     \cup {<<4, 5>>, <<4, 6>>, <<5, 6>>}]}

InputGraphs ==
    {[n |-> nn, E |-> E] :
        <<nn, E>> \in UNION {{<<k, F>> :
            F \in SUBSET {e \in (0..(k - 1)) \X (0..(k - 1)) : e[1] < e[2]}} : k \in 0..MaxN}}
    \cup ExampleGraphs

InitSolve ==
    /\ \E G \in InputGraphs :
         LET nn == G.n
             E == G.E
         IN /\ n = nn
            /\ m = SimpleGraph(nn, E).m
            /\ adj_list = SimpleGraph(nn, E).lst
            /\ adj_matrix = SimpleGraph(nn, E).mat
    /\ op = "find_maximum_clique" /\ arg = <<>> /\ ret = <<>>
    /\ algo \in Solvers
    /\ pc = "idle" /\ max_clique = <<>> /\ stack = <<>>
    /\ outer = [i |-> 0, ordering |-> <<>>]
    /\ cur = <<>>
    /\ bb = NewBBMC(n)
    /\ \E limit \in (IF algo = "CPUOptimized" THEN CPUOptimizedBuilds ELSE {MAX_VERTICES}) :
         cpu = [n |-> 0, neighbors |-> <<>>, MAX_VERTICES |-> limit]
    /\ sorted \in IF algo \in {"OstergardAlgorithm", "BBMC_DEGREE_ORDER", "BBMC_MCR_ORDER"}
                  THEN SortedOrders(Verts, [v \in Verts |-> SortKey(algo, v)])
                  ELSE {<<>>}
    /\ calls = 0
    /\ prev = [algo |-> "none", clique |-> <<>>, nodes |-> 0, log |-> <<>>]
    /\ now = 0

NextSolve ==
    \/ StartRPX
    \/ EnterNode
    \/ LoopNode
    \/ ReturnNode
    \/ OuterLoop
    \/ StartOstergard
    \/ EnterOstergard
    \/ LoopOstergard
    \/ ReturnOstergard
    \/ StartDyn
    \/ EnterDyn
    \/ ClassDyn
    \/ LoopDyn
    \/ ReturnDyn
    \/ StartBBMC
    \/ EnterBBMC
    \/ LoopBBMC
    \/ ReturnBBMC
    \/ Finish
    \/ CallAgain

SpecSolve == InitSolve /\ [][NextSolve]_vars

\* Longest time the clock is followed, in seconds.
MaxSeconds == 1

\* Largest timeout_seconds handed to the benchmark.
MaxTimeout == 1

\* The clock moves on while the algorithm called by benchmark_algorithm runs.
Tick ==
    /\ op = "benchmark_algorithm"
    /\ pc = "search"
    /\ now < MaxSeconds
    /\ now' = now + 1
    /\ UNCHANGED <<gvars, qvars, algo, pc, max_clique, stack, outer, cur, bb, cpu,
                   sorted, calls, prev>>

\* benchmark_algorithm(g, dataset_name, algo_name, timeout_seconds) on a new
\* solver object, at `start`.
InitBench ==
    /\ \E G \in InputGraphs :
         /\ n = G.n
         /\ m = SimpleGraph(G.n, G.E).m
         /\ adj_list = SimpleGraph(G.n, G.E).lst
         /\ adj_matrix = SimpleGraph(G.n, G.E).mat
    /\ op = "benchmark_algorithm" /\ ret = <<>>
    /\ \E timeout_seconds \in 0..MaxTimeout : arg = <<timeout_seconds>>
    /\ algo \in Solvers
    /\ pc = "idle" /\ max_clique = <<>> /\ stack = <<>>
    /\ outer = [i |-> 0, ordering |-> <<>>]
    /\ cur = <<>>
    /\ bb = NewBBMC(n)
    /\ cpu = [n |-> 0, neighbors |-> <<>>, MAX_VERTICES |-> MAX_VERTICES]
    /\ sorted \in IF algo \in {"OstergardAlgorithm", "BBMC_DEGREE_ORDER", "BBMC_MCR_ORDER"}
                  THEN SortedOrders(Verts, [v \in Verts |-> SortKey(algo, v)])
                  ELSE {<<>>}
    /\ calls = 0
    /\ prev = [algo |-> "none", clique |-> <<>>, nodes |-> 0, log |-> <<>>]
    /\ now = 0

NextBench ==
    \/ Tick
    \/ StartRPX
    \/ EnterNode
    \/ LoopNode
    \/ ReturnNode
    \/ OuterLoop
    \/ StartOstergard
    \/ EnterOstergard
    \/ LoopOstergard
    \/ ReturnOstergard
    \/ StartDyn
    \/ EnterDyn
    \/ ClassDyn
    \/ LoopDyn
    \/ ReturnDyn
    \/ StartBBMC
    \/ EnterBBMC
    \/ LoopBBMC
    \/ ReturnBBMC
    \/ Finish

SpecBench == InitBench /\ [][NextBench]_vars

\* The vertex counts on either side of the documented limit of CPUOptimized.
LimitSizes == {MAX_VERTICES, MAX_VERTICES + 1}

\* SpecLimit: CPUOptimized::find_maximum_clique on the input graphs and on the
\* edgeless graphs of the sizes around the limit; on the latter only the
\* entry of find_maximum_clique is followed.
InitLimit ==
    /\ \E G \in InputGraphs \cup {[n |-> nn, E |-> {}] : nn \in LimitSizes} :
         /\ n = G.n
         /\ m = SimpleGraph(G.n, G.E).m
         /\ adj_list = SimpleGraph(G.n, G.E).lst
         /\ adj_matrix = SimpleGraph(G.n, G.E).mat
    /\ op = "find_maximum_clique" /\ arg = <<>> /\ ret = <<>>
    /\ algo = "CPUOptimized"
    /\ pc = "idle" /\ max_clique = <<>> /\ stack = <<>>
    /\ outer = [i |-> 0, ordering |-> <<>>]
    /\ cur = <<>>
    /\ bb = <<>>
    /\ \E limit \in CPUOptimizedBuilds :
         cpu = [n |-> 0, neighbors |-> <<>>, MAX_VERTICES |-> limit]
    /\ sorted = <<>>
    /\ calls = 0
    /\ prev = [algo |-> "none", clique |-> <<>>, nodes |-> 0, log |-> <<>>]
    /\ now = 0

NextLimit ==
    \/ StartRPX
    \/ n \notin LimitSizes /\ EnterNode
    \/ n \notin LimitSizes /\ LoopNode
    \/ n \notin LimitSizes /\ ReturnNode
    \/ n \notin LimitSizes /\ Finish

SpecLimit == InitLimit /\ [][NextLimit]_vars

(***************************************************************************)
(* SpecColour : one call of one greedy colouring routine on a set P of     *)
(* vertices of a simple graph.  ret keeps the colour given to each vertex  *)
(* (-1 where none) and the number the routine reports or its caller reads. *)
(***************************************************************************)

ColouringRoutines == {"color_bound", "compute_coloring_bound", "color_graph", "bb_colour"}

\* OstergardAlgorithm::color_bound on the vertices of P in the order of the
\* solver's sorted vertex list.
ColorBound(P) ==
    /\ pc = "idle" /\ algo = "OstergardAlgorithm"
    /\ LET candidates == Filter(sorted, P)
       IN /\ op' = "color_bound" /\ arg' = P
          /\ ret' = [colour |-> IF candidates = <<>> THEN Uncoloured
                                ELSE color_bound_loop(candidates, candidates,
                                                      Uncoloured, 0).vertex_color,
                     count |-> color_bound(candidates)]
    /\ pc' = "done"
    /\ UNCHANGED <<now, gvars, algo, max_clique, stack, outer, cur, bb, cpu, sorted,
                   calls, prev>>

\* compute_coloring_bound of TomitaAlgorithm and DegeneracyBK.
ComputeColoringBound(P) ==
    /\ pc = "idle" /\ ColouringBound(algo)
    /\ op' = "compute_coloring_bound" /\ arg' = P
    /\ \E bound \in compute_coloring_bound(P) :
         \E o \in SortedOrders(P, [v \in P |-> DegIn(P, v)]) :
           LET colors == sequential_colouring(o, P, Uncoloured)
           IN /\ P # {} => bound = MaxColour(colors) + 1
              /\ ret' = [colour |-> colors, count |-> bound]
    /\ pc' = "done"
    /\ UNCHANGED <<now, gvars, algo, max_clique, stack, outer, cur, bb, cpu, sorted,
                   calls, prev>>

\* MaxCliqueDyn::color_graph: the pair it returns.
ColorGraph(P) ==
    /\ pc = "idle" /\ algo = "MaxCliqueDyn"
    /\ op' = "color_graph" /\ arg' = P
    /\ \E colors \in color_graph(P) :
         ret' = [colour |-> colors,
                 count |-> IF P = {} THEN 0 ELSE MaxColour(colors) + 1]
    /\ pc' = "done"
    /\ UNCHANGED <<now, gvars, algo, max_clique, stack, outer, cur, bb, cpu, sorted,
                   calls, prev>>

\* BBMC::bb_colour on a set P of positions of the vertex array that
\* find_maximum_clique has ordered; the caller reads the colour of the last
\* entry as the number of colours.
BBColour(P) ==
    /\ pc = "search" /\ algo \in BBMCStyles
    /\ op' = "bb_colour" /\ arg' = P
    /\ LET r == bb_colour(P)
       IN ret' = [colour |-> [v \in Verts |->
                                IF \E i \in 1..Len(r.U) : r.U[i] = v
                                THEN r.colour[CHOOSE i \in 1..Len(r.U) : r.U[i] = v]
                                ELSE -1],
                  count |-> IF r.U = <<>> THEN 0 ELSE r.colour[Len(r.colour)]]
    /\ pc' = "done"
    /\ UNCHANGED <<now, gvars, algo, max_clique, stack, outer, cur, bb, cpu, sorted,
                   calls, prev>>

\* Largest input graph whose vertex sets are coloured.
MaxColourN == 5

\* The cycle on five vertices, which has no triangle and needs three colours.
ColourGraphs ==
    {[n |-> 5, E |-> {<<0, 1>>, <<1, 2>>, <<2, 3>>, <<3, 4>>, <<0, 4>>}]}

\* A solver object whose search is about to colour a set of candidates.
InitColour ==
    /\ \E G \in {H \in InputGraphs : H.n <= MaxColourN} \cup ColourGraphs :
         /\ n = G.n
         /\ m = SimpleGraph(G.n, G.E).m
         /\ adj_list = SimpleGraph(G.n, G.E).lst
         /\ adj_matrix = SimpleGraph(G.n, G.E).mat
    /\ op = "find_maximum_clique" /\ arg = {} /\ ret = [colour |-> <<>>, count |-> 0]
    /\ algo \in {"OstergardAlgorithm", "MaxCliqueDyn"} \cup BBMCStyles
                \cup {a \in Solvers : ColouringBound(a)}
    /\ pc = "idle" /\ max_clique = <<>> /\ stack = <<>>
    /\ outer = [i |-> 0, ordering |-> <<>>]
    /\ cur = <<>>
    /\ sorted \in IF algo \in {"OstergardAlgorithm", "BBMC_DEGREE_ORDER", "BBMC_MCR_ORDER"}
                  THEN SortedOrders(Verts, [v \in Verts |-> SortKey(algo, v)])
                  ELSE {<<>>}
    /\ bb = NewBBMC(n)
    /\ cpu = [n |-> 0, neighbors |-> <<>>, MAX_VERTICES |-> MAX_VERTICES]
    /\ calls = 0
    /\ prev = [algo |-> "none", clique |-> <<>>, nodes |-> 0, log |-> <<>>]
    /\ now = 0

NextColour ==
    \/ \E P \in SUBSET Verts : ColorBound(P)
    \/ \E P \in SUBSET Verts : ComputeColoringBound(P)
    \/ \E P \in SUBSET Verts : ColorGraph(P)
    \/ StartBBMC
    \/ \E P \in SUBSET Verts : BBColour(P)

SpecColour == InitColour /\ [][NextColour]_vars

(***************************************************************************)
(* SpecGreedy : one call of find_greedy_clique by a solver that seeds its   *)
(* search with it.                                                         *)
(***************************************************************************)

FindGreedyClique ==
    /\ pc = "idle" /\ Seeded(algo)
    /\ op' = "find_greedy_clique" /\ arg' = <<>>
    /\ \E clique \in find_greedy_clique : ret' = clique
    /\ pc' = "done"
    /\ UNCHANGED <<now, gvars, algo, max_clique, stack, outer, cur, bb, cpu, sorted, calls,
                   prev>>

MaxGreedyN == 4

GreedyGraphs ==
    {[n |-> nn, E |-> E] :
        <<nn, E>> \in UNION {{<<k, F>> :
            F \in SUBSET {e \in (0..(k - 1)) \X (0..(k - 1)) : e[1] < e[2]}}
                : k \in 0..MaxGreedyN}}
    \cup ExampleGraphs

InitGreedy ==
    /\ \E G \in GreedyGraphs :
         /\ n = G.n
         /\ m = SimpleGraph(G.n, G.E).m
         /\ adj_list = SimpleGraph(G.n, G.E).lst
         /\ adj_matrix = SimpleGraph(G.n, G.E).mat
    /\ op = "none" /\ arg = <<>> /\ ret = <<>>
    /\ algo \in {a \in Solvers : Seeded(a)}
    /\ pc = "idle" /\ max_clique = <<>> /\ stack = <<>>
    /\ outer = [i |-> 0, ordering |-> <<>>]
    /\ cur = <<>>
    /\ bb = NewBBMC(n)
    /\ cpu = [n |-> 0, neighbors |-> <<>>, MAX_VERTICES |-> MAX_VERTICES]
    /\ sorted = <<>>
    /\ calls = 2
    /\ prev = [algo |-> "none", clique |-> <<>>, nodes |-> 0, log |-> <<>>]
    /\ now = 0

NextGreedy ==
    \/ FindGreedyClique

SpecGreedy == InitGreedy /\ [][NextGreedy]_vars

(***************************************************************************)
(* SpecPivot : one call of choose_pivot on disjoint sets P and X of        *)
(* vertices, by a solver object whose find_maximum_clique has started.     *)
(***************************************************************************)

\* choose_pivot(P, X) of TomitaAlgorithm, DegeneracyBK or CPUOptimized.
ChoosePivot(P, X) ==
    /\ pc = "search" /\ Pivoting(algo)
    /\ P \cap X = {}
    /\ op' = "choose_pivot" /\ arg' = <<P, X>>
    /\ \E pivot \in choose_pivot(P, X) : ret' = pivot
    /\ pc' = "done"
    /\ UNCHANGED <<now, gvars, algo, max_clique, stack, outer, cur, bb, cpu, sorted,
                   calls, prev>>

\* Largest input graph on whose vertex sets choose_pivot is called.
MaxPivotN == 5

InitPivot ==
    /\ \E G \in {H \in InputGraphs : H.n <= MaxPivotN} :
         /\ n = G.n
         /\ m = SimpleGraph(G.n, G.E).m
         /\ adj_list = SimpleGraph(G.n, G.E).lst
         /\ adj_matrix = SimpleGraph(G.n, G.E).mat
    /\ op = "find_maximum_clique" /\ arg = <<>> /\ ret = <<>>
    /\ algo \in {a \in Solvers : Pivoting(a)}
    /\ pc = "idle" /\ max_clique = <<>> /\ stack = <<>>
    /\ outer = [i |-> 0, ordering |-> <<>>]
    /\ cur = <<>>
    /\ bb = NewBBMC(n)
    /\ cpu = [n |-> 0, neighbors |-> <<>>, MAX_VERTICES |-> MAX_VERTICES]
    /\ sorted = <<>>
    /\ calls = 2
    /\ prev = [algo |-> "none", clique |-> <<>>, nodes |-> 0, log |-> <<>>]
    /\ now = 0

NextPivot ==
    \/ StartRPX
    \/ \E P \in SUBSET Verts : \E X \in SUBSET Verts : ChoosePivot(P, X)

SpecPivot == InitPivot /\ [][NextPivot]_vars

(***************************************************************************)
(* SpecTerm : one find_maximum_clique call of an exact solver, run to its  *)
(* end: a call that has started keeps executing until it returns.          *)
(***************************************************************************)

\* Every solver on the graphs up to MaxN vertices, and MaxCliqueDyn on the
\* 5-cycle as well, where the colouring bound exceeds the greedy seed and the
\* search has to branch.
TermInputs ==
    ({H \in InputGraphs : H.n <= MaxN} \X Solvers)
    \cup (ColourGraphs \X {"MaxCliqueDyn"})

InitTerm ==
    /\ \E I \in TermInputs :
         /\ n = I[1].n
         /\ m = SimpleGraph(I[1].n, I[1].E).m
         /\ adj_list = SimpleGraph(I[1].n, I[1].E).lst
         /\ adj_matrix = SimpleGraph(I[1].n, I[1].E).mat
         /\ algo = I[2]
    /\ op = "find_maximum_clique" /\ arg = <<>> /\ ret = <<>>
    /\ pc = "idle" /\ max_clique = <<>> /\ stack = <<>>
    /\ outer = [i |-> 0, ordering |-> <<>>]
    /\ cur = <<>>
    /\ bb = NewBBMC(n)
    /\ cpu = [n |-> 0, neighbors |-> <<>>, MAX_VERTICES |-> MAX_VERTICES]
    /\ sorted \in IF algo \in {"OstergardAlgorithm", "BBMC_DEGREE_ORDER", "BBMC_MCR_ORDER"}
                  THEN SortedOrders(Verts, [v \in Verts |-> SortKey(algo, v)])
                  ELSE {<<>>}
    /\ calls = 2
    /\ prev = [algo |-> "none", clique |-> <<>>, nodes |-> 0, log |-> <<>>]
    /\ now = 0

\* The steps of a call that is under way.
RunSolve ==
    \/ EnterNode \/ LoopNode \/ ReturnNode \/ OuterLoop
    \/ EnterOstergard \/ LoopOstergard \/ ReturnOstergard
    \/ EnterDyn \/ ClassDyn \/ LoopDyn \/ ReturnDyn
    \/ EnterBBMC \/ LoopBBMC \/ ReturnBBMC
    \/ Finish

NextTerm ==
    \/ StartRPX
    \/ StartOstergard
    \/ StartDyn
    \/ StartBBMC
    \/ RunSolve

SpecTerm == InitTerm /\ [][NextTerm]_vars /\ WF_vars(RunSolve)

(***************************************************************************)
(* SpecDegen : one find_maximum_clique call of DegeneracyBK, run to its    *)
(* end: a call that has started keeps executing until it returns.          *)
(***************************************************************************)

InitDegen ==
    /\ \E G \in {H \in InputGraphs : H.n <= MaxN} :
         /\ n = G.n
         /\ m = SimpleGraph(G.n, G.E).m
         /\ adj_list = SimpleGraph(G.n, G.E).lst
         /\ adj_matrix = SimpleGraph(G.n, G.E).mat
    /\ op = "find_maximum_clique" /\ arg = <<>> /\ ret = <<>>
    /\ algo \in {a \in Solvers : Degeneracy(a)}
    /\ pc = "idle" /\ max_clique = <<>> /\ stack = <<>>
    /\ outer = [i |-> 0, ordering |-> <<>>]
    /\ cur = <<>>
    /\ bb = NewBBMC(n)
    /\ cpu = [n |-> 0, neighbors |-> <<>>, MAX_VERTICES |-> MAX_VERTICES]
    /\ sorted = <<>>
    /\ calls = 2
    /\ prev = [algo |-> "none", clique |-> <<>>, nodes |-> 0, log |-> <<>>]
    /\ now = 0

NextDegen ==
    \/ StartRPX
    \/ OuterLoop
    \/ EnterNode
    \/ LoopNode
    \/ ReturnNode
    \/ Finish

SpecDegen ==
    /\ InitDegen /\ [][NextDegen]_vars
    /\ WF_vars(OuterLoop \/ EnterNode \/ LoopNode \/ ReturnNode \/ Finish)

(***************************************************************************)
(* SpecHeur : find_clique of one heuristic on one simple graph.  A draw    *)
(* from the random engine is any value of its distribution; a comparison   *)
(* of a uniform real against an acceptance probability strictly between 0  *)
(* and 1 can go either way.                                                *)
(***************************************************************************)

\* Largest max_iterations of a SimulatedAnnealing object.
MaxIterations == 3

\* Largest num_restarts and max_swaps of a RandomizedHeuristic object.
MaxRestarts == 2
MaxSwaps == 2

\* Largest graph whose vertices RandomizedHeuristic shuffles.
MaxShuffleN == 6

Heuristics == {"GreedyClique", "RandomizedHeuristic", "SimulatedAnnealing"}

\* The loop "if v is connected to all of clique, push it back" over a list.
RECURSIVE greedy_scan(_, _)
greedy_scan(vertices, clique) ==
    IF vertices = <<>> THEN clique
    ELSE LET v == Head(vertices)
         IN IF \A i \in 1..Len(clique) : has_edge(v, clique[i])
            THEN greedy_scan(Tail(vertices), Append(clique, v))
            ELSE greedy_scan(Tail(vertices), clique)

\* GreedyClique::find_clique: the lists it can return, one per order the
\* sort by degree can leave.
GreedyClique_find_clique ==
    IF n = 0 THEN {<<>>}
    ELSE {greedy_scan(o, <<>>) :
            o \in SortedOrders(Verts, [v \in Verts |-> get_degree(v)])}

\* RandomizedHeuristic::random_initial_clique: shuffle, then the greedy scan.
random_initial_clique ==
    {greedy_scan(o, <<>>) : o \in IterationOrders(Verts)}

\* The list without its element at position idx (vector::erase).
Erase(list, idx) == SubSeq(list, 1, idx - 1) \o SubSeq(list, idx + 1, Len(list))

\* The candidates loop: the vertices outside `members`, ascending, that are
\* adjacent to every vertex of `clique`.
Candidates(members, clique) ==
    {v \in Verts \ members : \A i \in 1..Len(clique) : has_edge(v, clique[i])}

\* SimulatedAnnealing::generate_neighbor: the lists it can return.
generate_neighbor(current) ==
    LET current_set == Range(current)
        removeOne == IF current # <<>>
                     THEN {Erase(current, idx) : idx \in 1..Len(current)}
                     ELSE {current}
        addOne == IF Candidates(current_set, current) # {}
                  THEN {Append(current, v) : v \in Candidates(current_set, current)}
                  ELSE {current}
        swap == IF current # <<>>
                THEN UNION {LET neighbor == Erase(current, idx)
                                candidates == Candidates(current_set \ {current[idx]},
                                                         neighbor)
                            IN IF candidates # {}
                               THEN {Append(neighbor, v) : v \in candidates}
                               ELSE {neighbor}
                            : idx \in 1..Len(current)}
                ELSE {current}
    IN removeOne \cup addOne \cup swap

\* SimulatedAnnealing::find_clique up to its loop.
StartAnnealing ==
    /\ pc = "idle" /\ algo = "SimulatedAnnealing"
    /\ pc' = "search"
    /\ \E current \in GreedyClique_find_clique :
         /\ cur' = [cur EXCEPT !.current = current, !.iter = 0]
         /\ max_clique' = current
    /\ UNCHANGED <<now, gvars, qvars, algo, stack, outer, bb, cpu, sorted, calls, prev>>

\* One iteration of the loop of SimulatedAnnealing::find_clique.
StepAnnealing ==
    /\ pc = "search" /\ algo = "SimulatedAnnealing"
    /\ cur.iter < cur.max_iterations
    /\ \E neighbor \in generate_neighbor(cur.current) :
         IF ~is_clique(neighbor)
         THEN /\ cur' = [cur EXCEPT !.iter = @ + 1]
              /\ UNCHANGED max_clique
         ELSE LET delta_E == Len(cur.current) - Len(neighbor)
              IN \E accept \in (IF delta_E < 0 THEN {TRUE} ELSE BOOLEAN) :
                   IF accept
                   THEN /\ cur' = [cur EXCEPT !.current = neighbor, !.iter = @ + 1]
                        /\ max_clique' = IF Len(neighbor) > Len(max_clique)
                                         THEN neighbor ELSE max_clique
                   ELSE /\ cur' = [cur EXCEPT !.iter = @ + 1]
                        /\ UNCHANGED max_clique
    /\ UNCHANGED <<now, gvars, qvars, algo, pc, stack, outer, bb, cpu, sorted, calls, prev>>

\* SimulatedAnnealing::find_clique returns best.
FinishAnnealing ==
    /\ pc = "search" /\ algo = "SimulatedAnnealing"
    /\ cur.iter >= cur.max_iterations
    /\ pc' = "done"
    /\ ret' = max_clique
    /\ UNCHANGED <<now, gvars, op, arg, algo, max_clique, stack, outer, cur, bb, cpu,
                   sorted, calls, prev>>

\* GreedyClique::find_clique as called by a driver.
GreedyFindClique ==
    /\ pc = "idle" /\ algo = "GreedyClique"
    /\ pc' = "done"
    /\ \E clique \in GreedyClique_find_clique :
         /\ max_clique' = clique
         /\ ret' = clique
    /\ UNCHANGED <<now, gvars, op, arg, algo, stack, outer, cur, bb, cpu, sorted, calls, prev>>

\* RandomizedHeuristic::find_clique up to its loop over the restarts.
StartRandomized ==
    /\ pc = "idle" /\ algo = "RandomizedHeuristic"
    /\ pc' = "search"
    /\ \E best \in GreedyClique_find_clique : max_clique' = best
    /\ cur' = [cur EXCEPT !.restart = 0, !.at = "restart"]
    /\ UNCHANGED <<now, gvars, qvars, algo, stack, outer, bb, cpu, sorted, calls, prev>>

\* The head of one restart: the initial clique and the entry of local_search.
RestartRandomized ==
    /\ pc = "search" /\ algo = "RandomizedHeuristic"
    /\ cur.at = "restart" /\ cur.restart < cur.num_restarts
    /\ \E initial \in (IF cur.restart = 0 THEN {max_clique} ELSE random_initial_clique) :
         cur' = [cur EXCEPT !.current = initial, !.best = initial,
                            !.improved = TRUE, !.iterations = 0,
                            !.at = "local_search"]
    /\ UNCHANGED <<now, gvars, qvars, algo, pc, max_clique, stack, outer, bb, cpu, sorted,
                   calls, prev>>

\* One iteration of the while loop of RandomizedHeuristic::local_search.
LocalSearchStep ==
    /\ pc = "search" /\ algo = "RandomizedHeuristic"
    /\ cur.at = "local_search"
    /\ cur.improved /\ cur.iterations < cur.max_swaps
    /\ LET current == cur.current
           candidates == Candidates(Range(current), current)
           longer(a, b) == IF Len(a) > Len(b) THEN a ELSE b
       IN IF candidates # {}
          THEN LET extended == Append(current,
                                      CHOOSE v \in candidates : \A w \in candidates : v <= w)
               IN cur' = [cur EXCEPT !.iterations = @ + 1, !.improved = TRUE,
                                     !.current = extended,
                                     !.best = longer(extended, @)]
          ELSE IF current = <<>>
          THEN cur' = [cur EXCEPT !.iterations = @ + 1, !.improved = FALSE]
          ELSE \E remove_idx \in 1..Len(current) :
                 LET removed == current[remove_idx]
                     temp == Erase(current, remove_idx)
                     swap_candidates ==
                         Candidates(Range(temp) \cup {removed}, temp)
                     new_clique ==
                         greedy_scan(CHOOSE o \in SortedOrders(swap_candidates,
                                        [v \in swap_candidates |-> 0 - v]) : TRUE, temp)
                 IN IF Len(new_clique) > Len(current)
                    THEN cur' = [cur EXCEPT !.iterations = @ + 1, !.improved = TRUE,
                                            !.current = new_clique,
                                            !.best = longer(new_clique, @)]
                    ELSE cur' = [cur EXCEPT !.iterations = @ + 1, !.improved = FALSE]
    /\ UNCHANGED <<now, gvars, qvars, algo, pc, max_clique, stack, outer, bb, cpu, sorted,
                   calls, prev>>

\* local_search returns best; find_clique keeps it if it is larger.
LocalSearchReturn ==
    /\ pc = "search" /\ algo = "RandomizedHeuristic"
    /\ cur.at = "local_search"
    /\ ~(cur.improved /\ cur.iterations < cur.max_swaps)
    /\ max_clique' = IF Len(cur.best) > Len(max_clique) THEN cur.best ELSE max_clique
    /\ cur' = [cur EXCEPT !.restart = @ + 1, !.at = "restart"]
    /\ UNCHANGED <<now, gvars, qvars, algo, pc, stack, outer, bb, cpu, sorted, calls, prev>>

\* RandomizedHeuristic::find_clique returns best.
FinishRandomized ==
    /\ pc = "search" /\ algo = "RandomizedHeuristic"
    /\ cur.at = "restart" /\ cur.restart >= cur.num_restarts
    /\ pc' = "done"
    /\ ret' = max_clique
    /\ UNCHANGED <<now, gvars, op, arg, algo, max_clique, stack, outer, cur, bb, cpu,
                   sorted, calls, prev>>

\* K4 on {0,1,2,3} and a vertex 4 adjacent to 0 and to the leaves 5, 6, 7.
HeuristicGraphs ==
    {[n |-> 8, E |-> {e \in (0..3) \X (0..3) : e[1] < e[2]}
                     \cup {<<0, 4>>, <<4, 5>>, <<4, 6>>, <<4, 7>>}]}

InitHeur ==
    /\ \E G \in InputGraphs \cup HeuristicGraphs :
         /\ n = G.n
         /\ m = SimpleGraph(G.n, G.E).m
         /\ adj_list = SimpleGraph(G.n, G.E).lst
         /\ adj_matrix = SimpleGraph(G.n, G.E).mat
    /\ op = "find_clique" /\ arg = <<>> /\ ret = <<>>
    /\ algo \in Heuristics
    /\ algo = "RandomizedHeuristic" => n <= MaxShuffleN
    /\ pc = "idle" /\ max_clique = <<>> /\ stack = <<>>
    /\ outer = <<>>
    /\ \E max_iterations \in (IF algo = "SimulatedAnnealing" THEN 0..MaxIterations ELSE {0}),
          num_restarts \in (IF algo = "RandomizedHeuristic" THEN 0..MaxRestarts ELSE {0}),
          max_swaps \in (IF algo = "RandomizedHeuristic" THEN 0..MaxSwaps ELSE {0}) :
         cur = [current |-> <<>>, best |-> <<>>, iter |-> 0,
                max_iterations |-> max_iterations,
                restart |-> 0, num_restarts |-> num_restarts,
                iterations |-> 0, max_swaps |-> max_swaps,
                improved |-> FALSE, at |-> "idle"]
    /\ bb = <<>> /\ cpu = <<>> /\ sorted = <<>>
    /\ calls = 0 /\ prev = <<>>
    /\ now = 0

NextHeur ==
    \/ GreedyFindClique
    \/ StartAnnealing
    \/ StepAnnealing
    \/ FinishAnnealing
    \/ StartRandomized
    \/ RestartRandomized
    \/ LocalSearchStep
    \/ LocalSearchReturn
    \/ FinishRandomized

SpecHeur == InitHeur /\ [][NextHeur]_vars

\* The number of vertices of a largest clique of the graph.
IsCliqueSet(S) == \A u \in S : \A v \in S : u # v => adj_matrix[u][v]
Omega ==
    CHOOSE k \in 0..n :
        /\ \E S \in SUBSET Verts : IsCliqueSet(S) /\ Cardinality(S) = k
        /\ \A S \in SUBSET Verts : IsCliqueSet(S) => Cardinality(S) <= k

\* C1: at every point of a find_maximum_clique call of every exact variant the
\* incumbent max_clique lists distinct vertices of [0,n) that are pairwise
\* adjacent, and so does the returned list: is_clique of it is true.
C1_IncumbentIsClique ==
    /\ NoRepeat(max_clique)
    /\ Range(max_clique) \subseteq Verts
    /\ is_clique(max_clique)
    /\ IsCliqueSet(Range(max_clique))
    /\ pc = "done" => (ret = max_clique /\ is_clique(ret))

C1_Witness ==
    /\ pc = "search" /\ calls = 0 /\ Len(stack) >= 2
    /\ n = 4 /\ m = 4
    /\ Len(max_clique) = 3

\* C2: the list find_maximum_clique returns has exactly omega(G) vertices.
C2_Optimal == pc = "done" => Len(ret) = Omega

C2_Witness ==
    /\ pc = "done" /\ calls = 1
    /\ n = 7 /\ m = 9 /\ Omega = 4
    /\ Len(ret) = 4

\* C3: on the same graph the greedy-seeded version of BronKerbosch,
\* TomitaAlgorithm and DegeneracyBK returns a list of the same size as the
\* unseeded version, which starts from the empty incumbent.
C3_SeededSameSize ==
    (pc = "done" /\ calls = 2 /\ prev.algo # algo) => Len(ret) = Len(prev.clique)

C3_Witness ==
    /\ pc = "done" /\ calls = 2
    /\ prev.algo = "TomitaAlgorithm" /\ algo = "TomitaAlgorithmSeeded"
    /\ \A seed \in find_greedy_clique : Len(seed) < Len(ret)
    /\ Len(ret) = Len(prev.clique)

\* C4: on the graph without vertices every exact variant returns the empty
\* list, on the graph with one vertex it returns [0]; neither call throws.
C4_DegenerateGraphs ==
    /\ (pc = "done" /\ n = 0) => ret = <<>>
    /\ (pc = "done" /\ n = 1) => ret = <<0>>

C4_Witness ==
    /\ pc = "done" /\ n = 1
    /\ algo = "OstergardAlgorithm"
    /\ ret = <<0>>

C13_LimitIs1024 ==
    algo = "CPUOptimized" =>
        /\ pc = "thrown" => (n > MAX_VERTICES /\ stack = <<>> /\ max_clique = <<>>)
        /\ pc \in {"search", "done"} => n <= MAX_VERTICES

\* A clique of G to which no further vertex of G can be added.
MaximalClique(K) ==
    /\ NoRepeat(K)
    /\ Range(K) \subseteq Verts
    /\ IsCliqueSet(Range(K))
    /\ \A v \in Verts \ Range(K) : \E u \in Range(K) : ~has_edge(v, u)

\* C14 as stated: the list a heuristic's find_clique returns is a maximal
\* clique of G, whatever the random draws.
C14_HeuristicMaximal ==
    (pc = "done" /\ algo \in Heuristics) => MaximalClique(ret)

\* The time limit handed to benchmark_algorithm has run out.
Cancelled == op = "benchmark_algorithm" /\ arg[1] > 0 /\ now >= arg[1]

\* C15 as stated: once the caller's limit has run out the search enters no
\* further recursion node; what is returned is a clique of G, and it is a
\* largest one whenever the limit had not run out.
C15_CancellationObserved ==
    /\ [][(Cancelled /\ pc = "search") => Len(stack') <= Len(stack)]_vars
    /\ [](pc = "done" => /\ NoRepeat(ret) /\ IsCliqueSet(Range(ret))
                         /\ ~Cancelled => Len(ret) = Omega)

\* C16: when a recursion node of a pivoting solver, entered with (R, P, X),
\* returns, the incumbent is at least as large as every clique R \cup S with
\* S a subset of P.
C16_PivotComplete ==
    (pc = "search" /\ Pivoting(algo) /\ stack # <<>> /\ Top.at = "return") =>
        \A S \in SUBSET Top.P0 :
            IsCliqueSet(Top.R \cup S) => Len(max_clique) >= Cardinality(Top.R \cup S)

\* A pivoted node that returns after its loop over P \ N(pivot) has made a
\* recursive call, with a clique of three vertices inside R \cup P.
C16_Witness ==
    /\ pc = "search" /\ Pivoting(algo) /\ stack # <<>> /\ Top.at = "return"
    /\ Top.pivot # -1 /\ Top.v # -1
    /\ Top.R # {} /\ Cardinality(Top.P0) >= 2
    /\ \E S \in SUBSET Top.P0 : Cardinality(S) = 2 /\ IsCliqueSet(Top.R \cup S)

\* C17: during one find_maximum_clique call of any exact solver the incumbent
\* changes only to a strictly longer list, so its size never decreases.
C17_IncumbentGrows ==
    [][(pc = "search" /\ algo \in Solvers /\ max_clique' # max_clique)
          => Len(max_clique') > Len(max_clique)]_vars

\* A call that started from the empty incumbent has overwritten it, and holds
\* a clique of three vertices while a clique of four is still to be found.
C17_Witness ==
    /\ pc = "search" /\ algo \in Solvers /\ ~Seeded(algo)
    /\ stack # <<>> /\ Len(max_clique) = 3 /\ Omega = 4

\* The frames of the recursion of an (R, P, X) solver.
Frames == IF algo \in RPXSolvers /\ pc = "search" THEN Range(stack) ELSE {}

\* The vertices outside R adjacent to every vertex of R.
CommonNeighbours(R) == {v \in Verts \ R : \A u \in R : has_edge(v, u)}

\* C18: at every recursion node of BronKerbosch, Tomita, DegeneracyBK and
\* CPUOptimized R is a clique, every vertex of P and of X is adjacent to every
\* vertex of R, and R, P and X are pairwise disjoint.
C18_NodeInvariant ==
    \A f \in Frames :
        /\ IsCliqueSet(f.R)
        /\ \A v \in f.P \cup f.X : \A u \in f.R : has_edge(v, u)
        /\ f.R \cap f.P = {} /\ f.R \cap f.X = {} /\ f.P \cap f.X = {}

\* A node two calls deep whose R, P and X are all non-empty.
C18_Witness ==
    /\ pc = "search" /\ algo \in RPXSolvers /\ Len(stack) >= 2
    /\ Cardinality(Top.R) >= 2 /\ Top.P # {} /\ Top.X # {}

\* C19: at every recursion node of those solvers P \cup X is exactly the set
\* of vertices outside R adjacent to all of R; so a node with P and X empty
\* has for R a clique that no vertex of G extends.
C19_MaximalAtLeaf ==
    \A f \in Frames :
        /\ f.P \cup f.X = CommonNeighbours(f.R)
        /\ (f.P = {} /\ f.X = {}) =>
              (IsCliqueSet(f.R) /\ CommonNeighbours(f.R) = {})

\* A node with P and X empty whose R is a maximal clique smaller than a
\* largest one, after other nodes have moved vertices to X.
C19_Witness ==
    /\ pc = "search" /\ algo \in RPXSolvers /\ Len(stack) >= 2
    /\ Top.P = {} /\ Top.X = {} /\ Top.at = "return"
    /\ Cardinality(Top.R) = 2 /\ Omega = 3
    /\ \E i \in 1..(Len(stack) - 1) : stack[i].X # {}

\* Adjacency as the routine called last sees it: BBMC works on positions of
\* its ordered vertex array, the others on vertex ids.
AdjacentIn(u, v) == IF op = "bb_colour" THEN v \in bb.N[u] ELSE has_edge(u, v)

\* The size of a largest clique among the vertices of P.
OmegaIn(P) ==
    CHOOSE k \in 0..Cardinality(P) :
        /\ \E S \in SUBSET P :
             /\ Cardinality(S) = k
             /\ \A u \in S : \A v \in S : u # v => AdjacentIn(u, v)
        /\ \A S \in SUBSET P :
             (\A u \in S : \A v \in S : u # v => AdjacentIn(u, v)) => Cardinality(S) <= k

\* C20: a greedy colouring routine called on P colours every vertex of P,
\* gives adjacent vertices of P different colours, reports the number of
\* colours it used, and that number is at least the size of a largest clique
\* inside P.
C20_ColouringBound ==
    (pc = "done" /\ op \in ColouringRoutines) =>
        /\ \A v \in arg : ret.colour[v] # -1
        /\ \A u \in arg : \A v \in arg :
              (u # v /\ AdjacentIn(u, v)) => ret.colour[u] # ret.colour[v]
        /\ ret.count = Cardinality({ret.colour[v] : v \in arg})
        /\ ret.count >= OmegaIn(arg)

\* A routine has coloured a set P that has both adjacent and non-adjacent
\* vertices, with as many colours as its largest clique has vertices.
C20_Witness ==
    /\ pc = "done" /\ op \in ColouringRoutines
    /\ Cardinality(arg) >= 4 /\ ret.count = 3 /\ OmegaIn(arg) = 3
    /\ \E u \in arg : \E v \in arg : u # v /\ ~AdjacentIn(u, v)

\* The frames of bb_max_clique that have coloured their P.
BBFrames ==
    IF algo \in BBMCStyles /\ pc = "search"
    THEN {f \in Range(stack) : f.at \in {"loop", "call"}}
    ELSE {}

\* C21: in every bb_max_clique node bb_colour has written each vertex of P
\* once into U, with colour[0] = 1 and colour non-decreasing; the loop goes
\* from the last index down, and at index i the candidates not yet branched
\* on are exactly U[0..i], which colour[i] independent sets cover.
C21_ColourOrder ==
    \A f \in BBFrames :
        /\ Len(f.U) = Len(f.colour) /\ Len(f.U) >= 1
        /\ \A j \in 1..Len(f.U) : \A k \in 1..Len(f.U) : f.U[j] = f.U[k] => j = k
        /\ f.colour[1] = 1
        /\ \A j \in 1..(Len(f.U) - 1) : f.colour[j] <= f.colour[j + 1]
        /\ f.i < Len(f.U)
        /\ f.P = {f.U[j] : j \in 1..(f.i + 1)}
        /\ \A j \in 1..(f.i + 1) :
              /\ f.colour[j] >= 1
              /\ \A k \in 1..(f.i + 1) :
                    (j # k /\ f.colour[j] = f.colour[k]) => f.U[k] \notin bb.N[f.U[j]]
        /\ f.i >= 0 => \A j \in 1..(f.i + 1) : f.colour[j] \in 1..f.colour[f.i + 1]

\* A node that has already branched on its last vertex and is at an index
\* whose vertex has a colour of 2 or more, with two vertices of one colour left.
C21_Witness ==
    \E f \in BBFrames :
        /\ f.at = "loop" /\ f.i >= 2 /\ f.i < Len(f.U) - 1
        /\ f.colour[f.i + 1] >= 2
        /\ \E j \in 1..(f.i + 1) : \E k \in 1..(f.i + 1) :
              j # k /\ f.colour[j] = f.colour[k]

\* |P \cap N(u)| in the graph.
PivotScore(P, u) == Cardinality({w \in P : has_edge(u, w)})

\* C22: choose_pivot(P, X) returns -1 exactly when P and X are both empty,
\* and otherwise a vertex of P \cup X whose number of neighbours inside P is
\* the largest over P \cup X.
C22_PivotMaximises ==
    (pc = "done" /\ op = "choose_pivot") =>
        LET P == arg[1]
            X == arg[2]
        IN /\ ret = -1 <=> P \cup X = {}
           /\ ret # -1 =>
                 /\ ret \in P \cup X
                 /\ \A w \in P \cup X : PivotScore(P, ret) >= PivotScore(P, w)

\* The pivot returned lies in X and beats every vertex of a non-empty P.
C22_Witness ==
    /\ pc = "done" /\ op = "choose_pivot"
    /\ Cardinality(arg[1]) >= 2 /\ ret \in arg[2]
    /\ \E w \in arg[1] : PivotScore(arg[1], w) >= 1
    /\ \A w \in arg[1] : PivotScore(arg[1], ret) > PivotScore(arg[1], w)

\* C23 as stated: among the vertices of P \cup X that attain the largest
\* number of neighbours inside P, choose_pivot returns the smallest id.
C23_SmallestIdOnTies ==
    (pc = "done" /\ op = "choose_pivot" /\ ret # -1) =>
        \A w \in arg[1] \cup arg[2] :
            PivotScore(arg[1], w) >= PivotScore(arg[1], ret) => ret <= w

\* C24: in DegeneracyBK::find_maximum_clique every outer iteration starts its
\* search with at most d vertices in P, every recursion node has at most d+1
\* vertices in R, and tomita_with_pivot calls nest at most d+1 deep, where
\* d = get_degeneracy().
C24_DegeneracyDepth ==
    (Degeneracy(algo) /\ pc = "search") =>
        /\ Len(stack) <= get_degeneracy + 1
        /\ \A k \in 1..Len(stack) : Cardinality(stack[k].R) <= get_degeneracy + 1
        /\ stack # <<>> => Cardinality(stack[1].P0) <= get_degeneracy

\* The calls are nested d+1 deep on a graph of degeneracy 2 or more whose
\* outer iteration started with exactly d candidates.
C24_Witness ==
    /\ Degeneracy(algo) /\ pc = "search"
    /\ get_degeneracy >= 2
    /\ Len(stack) = get_degeneracy + 1
    /\ Cardinality(stack[1].P0) = get_degeneracy

\* M is a non-empty clique of G that no vertex extends.
MaximalCliqueSet(M) ==
    /\ M # {} /\ M \subseteq Verts
    /\ IsCliqueSet(M) /\ CommonNeighbours(M) = {}

\* tomita_with_pivot has just been called with R = M, P = {} and X = {}.
TerminalOn(M) ==
    /\ pc = "search" /\ stack # <<>>
    /\ Top.at = "enter" /\ Top.R = M /\ Top.P = {} /\ Top.X = {}

\* The vertex whose outer iteration is running.
OuterVertex == outer.ordering[outer.i]

\* The position of u in the degeneracy ordering.
PositionOf(u) == CHOOSE k \in 1..Len(outer.ordering) : outer.ordering[k] = u

\* find_maximum_clique is about to run its loop over the ordering.
SearchBegins == pc = "search" /\ stack = <<>> /\ outer.i = 0

\* C25 as stated: in a DegeneracyBK call every maximal clique M of G gets its
\* terminal node (R = M, P and X empty) once: the node is reached, it is not
\* reached again after it has been left, and it is reached in the outer
\* iteration of the vertex of M that is earliest in the ordering.
C25_EachMaximalOnce ==
    \A M \in SUBSET (0..(MaxN - 1)) :
        /\ SearchBegins ~> (MaximalCliqueSet(M) => TerminalOn(M))
        /\ [](TerminalOn(M) =>
                 /\ OuterVertex \in M
                 /\ \A u \in M : PositionOf(OuterVertex) <= PositionOf(u))
        /\ [](TerminalOn(M) => [](~TerminalOn(M) => []~TerminalOn(M)))

\* The effect of one step on the recursion nodes that exist before and after it.
NodeFrameEffect ==
    (algo \in RPXSolvers /\ pc = "search" /\ pc' = "search") =>
        /\ \A k \in 1..Len(stack) :
              k <= Len(stack') =>
                  /\ stack'[k].R = stack[k].R
                  /\ stack'[k].P \cup stack'[k].X = stack[k].P \cup stack[k].X
                  /\ IF k < Len(stack) /\ k < Len(stack')
                     THEN stack'[k] = stack[k]
                     ELSE IF k < Len(stack)
                     THEN /\ stack[k].v \in stack[k].P
                          /\ stack'[k].P = stack[k].P \ {stack[k].v}
                          /\ stack'[k].X = stack[k].X \cup {stack[k].v}
                     ELSE /\ stack'[k].P = stack[k].P
                          /\ stack'[k].X = stack[k].X
        /\ (Len(stack') = Len(stack) + 1 /\ stack # <<>>) =>
              LET f == stack'[Len(stack)]
                  c == stack'[Len(stack')]
              IN /\ f.v \in f.P
                 /\ c.R = f.R \cup {f.v}
                 /\ c.P = f.P \cap NeighboursOf(f.v)
                 /\ c.X = f.X \cap NeighboursOf(f.v)

\* C26: in BronKerbosch, Tomita, DegeneracyBK and CPUOptimized a child call
\* leaves its caller's R, P and X alone; when the child for v returns the
\* caller moves exactly v from P to X, so R and P \cup X are constant over the
\* loop, and every child is called on (R \cup {v}, P \cap N(v), X \cap N(v)) of the
\* caller's current P and X.
C26_FrameEffect == [][NodeFrameEffect]_vars

\* A node that has already moved a vertex to X calls a further child, and that
\* child receives a vertex of the updated X.
C26_Witness ==
    /\ algo \in RPXSolvers /\ pc = "search" /\ Len(stack) >= 2
    /\ Top.at = "enter"
    /\ LET f == stack[Len(stack) - 1]
       IN /\ f.at = "call"
          /\ f.X # f.X0
          /\ Top.X \cap (f.X \ f.X0) # {}

\* The positions in V of the vertices of a returned clique.
PositionsOf(clique) == {i \in Verts : bb.V[i].index \in Range(clique)}

\* C27: under DEGREE_ORDER, MIN_WIDTH_ORDER and MCR_ORDER alike,
\* BBMC::find_maximum_clique returns distinct original vertex ids that are
\* pairwise adjacent in G, and the size returned is one number per graph, the
\* clique number, whichever style was used.
C27_StylesAgree ==
    (algo \in BBMCStyles /\ pc = "done") =>
        /\ Range(ret) \subseteq Verts
        /\ Cardinality(Range(ret)) = Len(ret)
        /\ IsCliqueSet(Range(ret))
        /\ Len(ret) = Omega

\* A style has reordered the vertices so that the positions of the returned
\* clique, read as vertex ids, would not be a clique of G.
C27_Witness ==
    /\ algo \in BBMCStyles /\ pc = "done" /\ Len(ret) >= 2
    /\ PositionsOf(ret) # Range(ret)
    /\ ~IsCliqueSet(PositionsOf(ret))

\* C28 as stated: at every node of OstergardAlgorithm the vertex taken from the
\* candidates has the highest degree among the candidates of that node, so
\* the first vertex branched on at the top level has maximum degree in G.
C28_HighestDegreeFirst ==
    (algo = "OstergardAlgorithm" /\ pc = "search") =>
        \A k \in 1..Len(stack) :
            stack[k].v # -1 =>
                \A u \in Range(stack[k].candidates) :
                    get_degree(stack[k].v) >= get_degree(u)

\* C29: find_greedy_clique returns normally on every graph; what it returns is
\* a duplicate-free clique of G, empty when n = 0 and non-empty otherwise,
\* that holds a vertex of maximum degree and that no vertex of G extends.
C29_GreedySeed ==
    op = "find_greedy_clique" =>
        /\ pc = "done"
        /\ Range(ret) \subseteq Verts
        /\ Cardinality(Range(ret)) = Len(ret)
        /\ IsCliqueSet(Range(ret))
        /\ n = 0 => ret = <<>>
        /\ n >= 1 =>
              /\ Len(ret) >= 1
              /\ \E v \in Range(ret) : \A w \in Verts : get_degree(v) >= get_degree(w)
              /\ CommonNeighbours(Range(ret)) = {}

\* The greedy clique was extended and is smaller than the largest clique of
\* G: it is maximal, not maximum.
C29_Witness ==
    /\ op = "find_greedy_clique" /\ pc = "done"
    /\ Len(ret) >= 2 /\ Len(ret) < Omega

\* The candidate set of a recursion node in the loop iteration it is in: P,
\* or Ostergard's candidates with the vertex popped for the pending call.
IterationSet(f) ==
    IF algo = "OstergardAlgorithm"
    THEN Range(f.candidates) \cup (IF f.at = "call" THEN {f.v} ELSE {})
    ELSE f.P

\* Every child works on a proper subset of its caller's candidates, and the
\* nesting below the first call is at most n.
ShrinkingCalls ==
    pc = "search" =>
        /\ Len(stack) <= n + 1
        /\ \A k \in 1..(Len(stack) - 1) :
              /\ IterationSet(stack[k + 1]) \subseteq IterationSet(stack[k])
              /\ IterationSet(stack[k + 1]) # IterationSet(stack[k])

\* A step leaves the candidate set of a node alone or takes one vertex out of
\* it, and the return of a child takes the child's vertex out of the caller's.
ShrinkingLoop ==
    (pc = "search" /\ pc' = "search") =>
        \A k \in 1..Len(stack) :
            k <= Len(stack') =>
                /\ \/ IterationSet(stack[k])' = IterationSet(stack[k])
                   \/ /\ IterationSet(stack[k])' \subseteq IterationSet(stack[k])
                      /\ Cardinality(IterationSet(stack[k])') =
                             Cardinality(IterationSet(stack[k])) - 1
                /\ (k = Len(stack') /\ k < Len(stack)) =>
                      /\ stack[k].v \in IterationSet(stack[k])
                      /\ IterationSet(stack[k])' = IterationSet(stack[k]) \ {stack[k].v}

====
